---- MODULE Spec2Model ----
(***************************************************************************)
(* A model of the IPC layer of logid: the typed value system (IPCVariant   *)
(* and IPCVariant::TypeInfo), the wire translation (translateGVariant /    *)
(* toGVariant), the IPCInterface bundle and the IPCServer registry with    *)
(* its three GDBus dispatch entry points.                                  *)
(*                                                                         *)
(* Strings whose characters the code inspects (type signatures, string     *)
(* payloads) are sequences of one-character strings; indices in operators  *)
(* that model C++ code are 0-based, as in the source, and go through At    *)
(* and substr.  A C++ exception is the record Throw(kind, what); every     *)
(* operator that models a throwing function returns either such a record   *)
(* or a record holding its result.                                         *)
(***************************************************************************)
EXTENDS Integers, Sequences, FiniteSets, TLC

(***************************************************************************)
(* Exceptions and small helpers                                            *)
(***************************************************************************)
Throw(kind, what) == [throws |-> kind, what |-> what]

Threw(x) == "throws" \in DOMAIN x

InvalidType == Throw("InvalidType", "Invalid type")

InvalidTypeOf(type_signature) == Throw("InvalidType", "Invalid type")

NullPtr == [null |-> TRUE]

\* A non-null pointer to the object named x.
Ptr(x) == [ptr |-> x]

At(s, i) == s[i + 1]

Min(a, b) == IF a < b THEN a ELSE b

\* A substr that leaves out the last character it was asked for.
substrShort(s, pos, count) == SubSeq(s, pos + 1, Min(pos + count - 1, Len(s)))

substr(s, pos, count) == SubSeq(s, pos + 1, Min(pos + count, Len(s)))

back(s) == s[Len(s)]

(***************************************************************************)
(* IPCVariant::TypeInfo                                                    *)
(***************************************************************************)
SINGLE_TYPES == {"n", "q", "i", "u", "x", "t", "d", "y", "s", "g", "o", "b"}

SPECIAL_TYPES == {"a", "(", "{"}

ALL_TYPES == SINGLE_TYPES \cup SPECIAL_TYPES

VALID_CHARS == ALL_TYPES \cup {")", "}"}

StringTypes == {"s", "g", "o"}

\* A TypeInfo object: its fields, as the constructors set them.
MkTypeInfo(t, sig, structs, arr, key, val) ==
    [_type |-> t, _type_signature |-> sig, _struct_types |-> structs,
     _array_type |-> arr, _dict_key |-> key, _dict_value |-> val]

\* TypeInfo::TypeInfo(): the None type, signature "0".
TypeInfo_default == MkTypeInfo("0", <<"0">>, <<>>, NullPtr, NullPtr, NullPtr)

\* TypeInfo::TypeInfo(char)
TypeInfo_char(c) ==
    IF c \in SINGLE_TYPES
    THEN MkTypeInfo(c, <<c>>, <<>>, NullPtr, NullPtr, NullPtr)
    ELSE InvalidTypeOf(<<c>>)

\* TypeInfo::TypeInfo(Type)
TypeInfo_Type(t) ==
    IF t \in {"0", "a", "(", "{"}
    THEN InvalidType
    ELSE MkTypeInfo(t, <<t>>, <<>>, NullPtr, NullPtr, NullPtr)

\* operator[] of the std::string at index i reads a character of the string.
InRange(type_signature, i) == i >= 0 /\ i < Len(type_signature)

\* A read of type_signature[i] outside the string.
OutsideRead == Throw("undefined", "type_signature[i] outside the string")

\* A scan that tests the character at `end` before it tests `end`.
RECURSIVE ScanEndPast(_, _, _, _)
ScanEndPast(type_signature, start, end, end_count) ==
    IF ~(end <= Len(type_signature))
    THEN [end |-> end, end_count |-> end_count]
    ELSE IF ~InRange(type_signature, start) \/ ~InRange(type_signature, end)
    THEN OutsideRead
    ELSE LET c == IF At(type_signature, start) = "{" THEN "}" ELSE ")"
             n == IF At(type_signature, end) = At(type_signature, start)
                  THEN end_count + 1
                  ELSE IF At(type_signature, end) = c
                       THEN end_count - 1
                       ELSE end_count
         IN  IF n = 0
             THEN [end |-> end, end_count |-> 0]
             ELSE ScanEndPast(type_signature, start, end + 1, n)

\* The for loop of getSpecialEnd over a struct or dict: counts openers and
\* closers from `end` on and stops at the position where the count is zero.
RECURSIVE ScanEnd(_, _, _, _)
ScanEnd(type_signature, start, end, end_count) ==
    IF ~(end < Len(type_signature))
    THEN [end |-> end, end_count |-> end_count]
    ELSE IF ~InRange(type_signature, start) \/ ~InRange(type_signature, end)
    THEN OutsideRead
    ELSE LET c == IF At(type_signature, start) = "{" THEN "}" ELSE ")"
             n == IF At(type_signature, end) = At(type_signature, start)
                  THEN end_count + 1
                  ELSE IF At(type_signature, end) = c
                       THEN end_count - 1
                       ELSE end_count
         IN  IF n = 0
             THEN [end |-> end, end_count |-> 0]
             ELSE ScanEnd(type_signature, start, end + 1, n)

\* TypeInfo::getSpecialEnd: the index of the last character of the composite
\* that starts at `start`.  Its result is [end |-> index].
RECURSIVE getSpecialEnd(_, _)
getSpecialEnd(type_signature, start) ==
    IF ~(start < Len(type_signature) - 1)
    THEN Throw("assert", "start < type_signature.size()-1")
    ELSE IF ~InRange(type_signature, start)
    THEN OutsideRead
    ELSE IF At(type_signature, start) \notin SPECIAL_TYPES
    THEN Throw("assert", "SPECIAL_TYPES.find(type_signature[start])")
    ELSE IF At(type_signature, start) = "a"
    THEN IF ~InRange(type_signature, start + 1)
         THEN OutsideRead
         ELSE IF At(type_signature, start + 1) \in SINGLE_TYPES
         THEN [end |-> start + 1]
         ELSE IF At(type_signature, start + 1) \in SPECIAL_TYPES
              THEN IF start >= Len(type_signature) - 2
                   THEN InvalidTypeOf(type_signature)
                   ELSE getSpecialEnd(type_signature, start + 1)
              ELSE InvalidTypeOf(type_signature)
    ELSE LET Closed(r) == IF Threw(r) THEN r
                          ELSE IF r.end_count # 0
                          THEN InvalidTypeOf(type_signature)
                          ELSE [end |-> r.end]
         IN  Closed(ScanEnd(type_signature, start, start + 1, 1))

RECURSIVE TypeInfo(_)
RECURSIVE StructTypes(_, _, _)

\* The for loop of the Struct branch of TypeInfo(std::string): the slot types
\* from index i on, appended to acc.  Its result is [types |-> sequence].
StructTypes(type_signature, i, acc) ==
    IF ~(i < Len(type_signature) - 1)
    THEN [types |-> acc]
    ELSE IF ~InRange(type_signature, i)
    THEN OutsideRead
    ELSE IF At(type_signature, i) \in SINGLE_TYPES
    THEN StructTypes(type_signature, i + 1,
                     Append(acc, TypeInfo_char(At(type_signature, i))))
    ELSE IF At(type_signature, i) \in SPECIAL_TYPES
    THEN LET Slot(sub, end) ==
                IF Threw(sub) THEN sub
                ELSE StructTypes(type_signature, end + 1, Append(acc, sub))
             SlotTo(e) ==
                IF Threw(e) THEN e
                ELSE IF e.end >= Len(type_signature) - 1
                THEN InvalidTypeOf(type_signature)
                ELSE Slot(TypeInfo(substr(type_signature, i, e.end - i + 1)),
                          e.end)
         IN  SlotTo(getSpecialEnd(type_signature, i))
    ELSE InvalidTypeOf(type_signature)

\* The Dict branch of TypeInfo(std::string): key, then value.
DictTypes(type_signature) ==
    IF back(type_signature) # "}"
    THEN InvalidTypeOf(type_signature)
    ELSE
    LET Made(key, value) ==
            IF Threw(value) THEN value
            ELSE MkTypeInfo("{", type_signature, <<>>, NullPtr, key, value)
        ValueTo(key, value_start, value_end) ==
            IF Threw(value_end) THEN value_end
            ELSE IF value_end.end # Len(type_signature) - 2
            THEN InvalidTypeOf(type_signature)
            ELSE Made(key, TypeInfo(substr(type_signature, value_start,
                                           value_end.end - value_start + 1)))
        Value(key, value_start) ==
            IF Threw(key) THEN key
            ELSE IF value_start >= Len(type_signature)
            THEN InvalidTypeOf(type_signature)
            ELSE IF ~InRange(type_signature, value_start)
            THEN OutsideRead
            ELSE IF At(type_signature, value_start) \in SINGLE_TYPES
            THEN Made(key, TypeInfo(substr(type_signature, value_start, 1)))
            ELSE IF At(type_signature, value_start) \in SPECIAL_TYPES
            THEN ValueTo(key, value_start,
                         getSpecialEnd(type_signature, value_start))
            ELSE InvalidTypeOf(type_signature)
        KeyTo(key_end) ==
            IF Threw(key_end) THEN key_end
            ELSE IF key_end.end >= Len(type_signature) - 1
            THEN InvalidTypeOf(type_signature)
            ELSE Value(TypeInfo(substr(type_signature, 1, key_end.end)),
                       key_end.end + 1)
    IN  IF ~InRange(type_signature, 1)
        THEN OutsideRead
        ELSE IF At(type_signature, 1) \in SINGLE_TYPES
        THEN Value(TypeInfo(substr(type_signature, 1, 1)), 2)
        ELSE IF At(type_signature, 1) \in SPECIAL_TYPES
        THEN KeyTo(getSpecialEnd(type_signature, 1))
        ELSE InvalidTypeOf(type_signature)

\* TypeInfo::TypeInfo(std::string): the recursive-descent parser.
TypeInfo(type_signature) ==
    IF type_signature = <<>>
    THEN InvalidType
    ELSE IF \E k \in 1..Len(type_signature) : type_signature[k] \notin VALID_CHARS
    THEN InvalidTypeOf(type_signature)
    ELSE IF At(type_signature, 0) \in SINGLE_TYPES
    THEN IF Len(type_signature) # 1
         THEN InvalidTypeOf(type_signature)
         ELSE MkTypeInfo(At(type_signature, 0), type_signature, <<>>,
                         NullPtr, NullPtr, NullPtr)
    ELSE IF At(type_signature, 0) \notin SPECIAL_TYPES
    THEN InvalidTypeOf(type_signature)
    ELSE IF Len(type_signature) = 1
    THEN InvalidTypeOf(type_signature)
    ELSE IF At(type_signature, 0) = "a"
    THEN LET ArrayOf(sub) ==
                IF Threw(sub) THEN sub
                ELSE MkTypeInfo("a", type_signature, <<>>, sub, NullPtr, NullPtr)
         IN  ArrayOf(TypeInfo(substr(type_signature, 1, Len(type_signature))))
    ELSE IF At(type_signature, 0) = "("
    THEN IF back(type_signature) # ")"
         THEN InvalidTypeOf(type_signature)
         ELSE LET StructOf(st) ==
                     IF Threw(st) THEN st
                     ELSE MkTypeInfo("(", type_signature, st.types,
                                     NullPtr, NullPtr, NullPtr)
              IN  StructOf(StructTypes(type_signature, 1, <<>>))
    ELSE DictTypes(type_signature)

primaryType(type) == type._type

typeSignature(type) == type._type_signature

\* TypeInfo::operator== / operator!=: the signatures are compared.
TypeEq(a, b) == typeSignature(b) = typeSignature(a)

TypeNe(a, b) == typeSignature(b) # typeSignature(a)

arrayType(type) == IF type._type # "a" THEN InvalidType ELSE type._array_type

structFormat(type) ==
    IF type._type # "(" THEN InvalidType ELSE [types |-> type._struct_types]

dictType(type) ==
    IF type._type # "{" THEN InvalidType
    ELSE [first |-> type._dict_key, second |-> type._dict_value]

(***************************************************************************)
(* IPCVariant                                                              *)
(***************************************************************************)
\* An IPCVariant object: its five fields.  A dict (std::map) is the
\* sequence of its entries [first, second] in iteration order.
MkVariant(array, dict, num_data, string_data, type) ==
    [_array |-> array, _dict |-> dict, _num_data |-> num_data,
     _string_data |-> string_data, _type |-> type]

\* IPCVariant::type()
type(v) == v._type

\* The TypeInfo::Type each NUM_DATA constructor gives, by C++ argument type.
NUM_DATA_Type(ctype) ==
    CASE ctype = "int16_t" -> "n"
      [] ctype = "uint16_t" -> "q"
      [] ctype = "int32_t" -> "n"
      [] ctype = "uint32_t" -> "u"
      [] ctype = "int64_t" -> "x"
      [] ctype = "uint64_t" -> "t"
      [] ctype = "double" -> "d"
      [] ctype = "uint8_t" -> "y"
      [] ctype = "bool" -> "b"

\* The NUM_DATA constructors: IPCVariant(x data).
IPCVariant_num(ctype, data) ==
    MkVariant(<<>>, <<>>, data, <<>>, TypeInfo_Type(NUM_DATA_Type(ctype)))

\* IPCVariant(std::string data, TypeInfo::Type type)
IPCVariant_string(data, t) ==
    IF t \notin StringTypes
    THEN InvalidType
    ELSE LET ti == TypeInfo_Type(t)
         IN  IF Threw(ti) THEN ti ELSE MkVariant(<<>>, <<>>, 0, data, ti)

\* A constructor that looks at the first child only.
ArrayFirstChecked(array, t) ==
    IF primaryType(t) = "a"
    THEN IF Len(array) > 0 /\ TypeNe(type(array[1]), arrayType(t))
         THEN InvalidType
         ELSE MkVariant(array, <<>>, 0, <<>>, t)
    ELSE IF primaryType(t) = "("
    THEN IF Len(array) # Len(structFormat(t).types)
         THEN InvalidType
         ELSE IF Len(array) > 0 /\
                 TypeNe(type(array[1]), structFormat(t).types[1])
              THEN InvalidType
              ELSE MkVariant(array, <<>>, 0, <<>>, t)
    ELSE InvalidType

\* IPCVariant(std::vector<IPCVariant> array, const TypeInfo& type)
IPCVariant_array(array, t) ==
    IF primaryType(t) = "a"
    THEN IF \E i \in 1..Len(array) : TypeNe(type(array[i]), arrayType(t))
         THEN InvalidType
         ELSE MkVariant(array, <<>>, 0, <<>>, t)
    ELSE IF primaryType(t) = "("
    THEN IF Len(array) # Len(structFormat(t).types)
         THEN InvalidType
         ELSE IF \E i \in 1..Len(array) :
                     TypeNe(type(array[i]), structFormat(t).types[i])
              THEN InvalidType
              ELSE MkVariant(array, <<>>, 0, <<>>, t)
    ELSE InvalidType

\* IPCVariant(IPCVariantDict dict, const TypeInfo& type)
IPCVariant_dict(dict, t) ==
    IF primaryType(t) # "{"
    THEN InvalidType
    ELSE IF \E i \in 1..Len(dict) :
                \/ TypeNe(type(dict[i].first), dictType(t).first)
                \/ TypeNe(type(dict[i].second), dictType(t).second)
         THEN InvalidType
         ELSE MkVariant(<<>>, dict, 0, <<>>, t)

\* NUM_TYPE_OVERLOAD operator x(): the typed numeric accessors.  `t` is the
\* TypeInfo::Type of the macro; the result is [value |-> number].
as_num(v, t) ==
    IF primaryType(type(v)) # t THEN InvalidType ELSE [value |-> v._num_data]

\* operator bool(): false, not an exception, on another kind.
as_bool(v) ==
    IF primaryType(type(v)) # "b" THEN FALSE ELSE v._num_data # 0

\* operator std::string() and explicit operator const char*()
as_string(v) ==
    IF primaryType(type(v)) \notin StringTypes
    THEN InvalidType
    ELSE [value |-> v._string_data]

\* explicit operator const std::vector<IPCVariant>&()
as_vector(v) ==
    IF primaryType(type(v)) # "{" THEN InvalidType ELSE [value |-> v._array]

\* explicit operator IPCVariantDict()
as_dict(v) ==
    IF primaryType(type(v)) # "{" THEN InvalidType ELSE [value |-> v._dict]

\* IPCVariant::operator==(const IPCVariant&); its result is [value |-> bool].
RECURSIVE VariantEq(_, _)
RECURSIVE DictEq(_, _, _)

\* std::map::operator== on two dicts of equal size: entry by entry from i on.
DictEq(a, b, i) ==
    IF i > Len(a) THEN [value |-> TRUE]
    ELSE LET Second(w) ==
                IF Threw(w) THEN w
                ELSE IF ~w.value THEN [value |-> FALSE]
                ELSE DictEq(a, b, i + 1)
             First(k) ==
                IF Threw(k) THEN k
                ELSE IF ~k.value THEN [value |-> FALSE]
                ELSE Second(VariantEq(a[i].second, b[i].second))
         IN  First(VariantEq(a[i].first, b[i].first))

VariantEq(this, other) ==
    IF TypeNe(type(this), type(other))
    THEN [value |-> FALSE]
    ELSE LET t == primaryType(type(this))
         IN  IF t \in {"n", "q", "i", "u", "x", "t", "d", "y"}
             THEN [value |-> as_num(this, t).value = as_num(other, t).value]
             ELSE IF t \in StringTypes
             THEN [value |-> as_string(this).value = as_string(other).value]
             ELSE IF t = "b"
             THEN [value |-> as_bool(this) = as_bool(other)]
             ELSE IF t \in {"a", "("}
             THEN IF Threw(as_vector(this)) THEN as_vector(this)
                  ELSE [value |-> as_vector(this).value = as_vector(other).value]
             ELSE IF t = "{"
             THEN IF Len(this._dict) # Len(other._dict)
                  THEN [value |-> FALSE]
                  ELSE DictEq(this._dict, other._dict, 1)
             ELSE [value |-> TRUE]

\* IPCVariantDict::operator[](key) = value.  The map is ordered by
\* std::equal_to<>: the lookup descends right past a node whose key equals
\* `key` and left past every other node, so an equal key is added after the
\* last entry and an unequal key lands on the first entry, whose value is
\* overwritten.  The result is [dict |-> the map].
DictSubscriptAssign(dict, key, value) ==
    IF dict = <<>>
    THEN [dict |-> <<[first |-> key, second |-> value]>>]
    ELSE LET Placed(e) ==
                IF Threw(e) THEN e
                ELSE IF e.value
                THEN [dict |-> Append(dict, [first |-> key, second |-> value])]
                ELSE [dict |-> [dict EXCEPT ![1].second = value]]
         IN  Placed(VariantEq(dict[1].first, key))

(***************************************************************************)
(* The wire boundary: translateGVariant and toGVariant                      *)
(***************************************************************************)
\* A GVariant: its type string, its scalar or string payload, its children.
MkGVariant(gtype, num, str, children) ==
    [gtype |-> gtype, num |-> num, str |-> str, children |-> children]

\* A slot of a GVariant* array that was allocated and never written.
Uninitialized == [uninitialized |-> TRUE]

RECURSIVE translateGVariant(_)
RECURSIVE translateChildren(_, _, _)
RECURSIVE translateDictChildren(_, _, _)

\* The for loop of the Array/Struct case; the result is [array |-> sequence].
translateChildren(variant, i, array) ==
    IF ~(i < Len(variant.children))
    THEN [array |-> array]
    ELSE LET Kept(c) ==
                IF Threw(c) THEN c
                ELSE translateChildren(variant, i + 1, Append(array, c))
         IN  Kept(translateGVariant(variant.children[i + 1]))

\* The for loop of the Dict case; the result is [dict |-> the map].
translateDictChildren(variant, i, dict) ==
    IF ~(i < Len(variant.children))
    THEN [dict |-> dict]
    ELSE LET element == variant.children[i + 1]
             Placed(d) ==
                IF Threw(d) THEN d
                ELSE translateDictChildren(variant, i + 1, d.dict)
             Entry(key, val) ==
                IF Threw(val) THEN val
                ELSE IF Threw(key) THEN key
                ELSE Placed(DictSubscriptAssign(dict, key, val))
         IN  Entry(translateGVariant(element.children[1]),
                   translateGVariant(element.children[2]))

\* The type translateGVariant works with: the GVariant's own type string,
\* an array of two-field structs being re-read as a dict.
translateType(variant) ==
    LET Dict(ts) == TypeInfo(<<"{">> \o SubSeq(ts, 3, Len(ts) - 1) \o <<"}">>)
        Reread(t) ==
            IF Threw(t) THEN t
            ELSE IF /\ primaryType(t) = "a"
                    /\ primaryType(arrayType(t)) = "("
                    /\ Len(structFormat(arrayType(t)).types) = 2
            THEN Dict(typeSignature(t))
            ELSE t
    IN  Reread(TypeInfo(variant.gtype))

translateGVariant(variant) ==
    LET Array(a, t) == IF Threw(a) THEN a ELSE IPCVariant_array(a.array, t)
        Dict(d, t) == IF Threw(d) THEN d ELSE IPCVariant_dict(d.dict, t)
        Num(ctype) == IPCVariant_num(ctype, variant.num)
        As(t) ==
            IF Threw(t) THEN t
            ELSE CASE primaryType(t) = "0" ->
                        Throw("runtime_error", "invalid none typeinfo")
                   [] primaryType(t) = "n" -> Num("int16_t")
                   [] primaryType(t) = "q" -> Num("uint16_t")
                   [] primaryType(t) = "i" -> Num("int32_t")
                   [] primaryType(t) = "u" -> Num("uint32_t")
                   [] primaryType(t) = "x" -> Num("int64_t")
                   [] primaryType(t) = "t" -> Num("uint64_t")
                   [] primaryType(t) = "d" -> Num("double")
                   [] primaryType(t) = "y" -> Num("uint8_t")
                   [] primaryType(t) \in StringTypes ->
                        IPCVariant_string(variant.str, primaryType(t))
                   [] primaryType(t) = "b" -> Num("bool")
                   [] primaryType(t) \in {"a", "("} ->
                        Array(translateChildren(variant, 0, <<>>), t)
                   [] primaryType(t) = "{" ->
                        Dict(translateDictChildren(variant, 0, <<>>), t)
    IN  As(translateType(variant))

RECURSIVE toGVariant(_)
RECURSIVE toGVariantChildren(_, _, _)

\* The for loops of the Array and Struct cases: garray[i] = toGVariant(array[i]).
toGVariantChildren(array, i, garray) ==
    IF ~(i < Len(array))
    THEN [garray |-> garray]
    ELSE LET Kept(g) ==
                IF Threw(g) THEN g
                ELSE toGVariantChildren(array, i + 1, Append(garray, g))
         IN  Kept(toGVariant(array[i + 1]))

\* The type string of the tuple g_variant_new_tuple builds from children.
RECURSIVE TupleType(_, _)
TupleType(children, i) ==
    IF i > Len(children) THEN <<")">>
    ELSE children[i].gtype \o TupleType(children, i + 1)

NewTuple(children) == MkGVariant(<<"(">> \o TupleType(children, 1), 0, <<>>, children)

\* The Dict case: the loop writes every entry's tuple to garray[i] with i
\* never advanced, so slot 0 holds the last entry and the others are never
\* written.
toGVariantDict(ipc_variant) ==
    LET dict == as_dict(ipc_variant).value
        dict_type == dictType(type(ipc_variant))
        k == toGVariant(dict[Len(dict)].first)
        w == toGVariant(dict[Len(dict)].second)
        elem == <<"(">> \o typeSignature(dict_type.first)
                        \o typeSignature(dict_type.second) \o <<")">>
    IN  IF dict = <<>>
        THEN MkGVariant(<<"a">> \o elem, 0, <<>>, <<>>)
        ELSE IF \E i \in 1..Len(dict) : Threw(toGVariant(dict[i].first))
        THEN (CHOOSE x \in {toGVariant(dict[i].first) : i \in 1..Len(dict)} : Threw(x))
        ELSE IF \E i \in 1..Len(dict) : Threw(toGVariant(dict[i].second))
        THEN (CHOOSE x \in {toGVariant(dict[i].second) : i \in 1..Len(dict)} : Threw(x))
        ELSE MkGVariant(<<"a">> \o elem, 0, <<>>,
                        [i \in 1..Len(dict) |->
                            IF i = 1 THEN NewTuple(<<k, w>>) ELSE Uninitialized])

toGVariant(ipc_variant) ==
    LET primary_type == primaryType(type(ipc_variant))
    IN  CASE primary_type = "0" ->
                Throw("runtime_error", "invalid none typeinfo")
          [] primary_type \in {"n", "q", "i", "u", "x", "t", "d", "y"} ->
                MkGVariant(<<primary_type>>,
                           as_num(ipc_variant, primary_type).value, <<>>, <<>>)
          [] primary_type \in StringTypes ->
                MkGVariant(<<primary_type>>, 0,
                           as_string(ipc_variant).value, <<>>)
          [] primary_type = "b" ->
                MkGVariant(<<"b">>, IF as_bool(ipc_variant) THEN 1 ELSE 0,
                           <<>>, <<>>)
          [] primary_type = "a" ->
                LET Built(g) ==
                        IF Threw(g) THEN g
                        ELSE MkGVariant(<<"a">> \o typeSignature(
                                            arrayType(type(ipc_variant))),
                                        0, <<>>, g.garray)
                    Of(array) ==
                        IF Threw(array) THEN array
                        ELSE Built(toGVariantChildren(array.value, 0, <<>>))
                IN  Of(as_vector(ipc_variant))
          [] primary_type = "(" ->
                LET Built(g) == IF Threw(g) THEN g ELSE NewTuple(g.garray)
                    Of(vstruct) ==
                        IF Threw(vstruct) THEN vstruct
                        ELSE Built(toGVariantChildren(vstruct.value, 0, <<>>))
                IN  Of(as_vector(ipc_variant))
          [] primary_type = "{" -> toGVariantDict(ipc_variant)

(***************************************************************************)
(* IPCInterface: identity and the interfaces of the model                  *)
(***************************************************************************)
LOGID_DBUS_NAME == "pizza.pixl.logiops"

LOGID_DBUS_OBJECTMANAGER_NODE == "/pizza/pixl/logiops"

\* IPCInterface::IPCInterface(node, name): the _node and _name it sets.
IPCInterface(node, name) ==
    [_node |-> IF node = "" THEN LOGID_DBUS_OBJECTMANAGER_NODE
               ELSE LOGID_DBUS_OBJECTMANAGER_NODE \o "/" \o node,
     _name |-> IF name = "" THEN LOGID_DBUS_NAME
               ELSE LOGID_DBUS_NAME \o "." \o name]

\* The interface objects of the model: the Device::IPC and DPI::IPC of the
\* device with id 0, and one further collaborator's interface under the
\* device's node.
Interfaces == {"Device", "DPI", "Collaborator"}

\* Device::IPC::IPC: the identity of the Device interface of device id 0.
DeviceIdentity == IPCInterface("device/" \o "0", "Device")

\* The constructor call each interface object makes.
Identity(i) ==
    CASE i = "Device" -> DeviceIdentity
      [] i = "DPI" -> IPCInterface(DeviceIdentity._node \o "/dpi", "DPI")
      [] i = "Collaborator" -> IPCInterface("device/" \o "0", "Collaborator")

\* An IPCArgsInfo entry: std::pair<std::string, TypeInfo>.
Arg(name, t) == [first |-> name, second |-> t]

\* IPCFunction; `function` names the handler.
MkFunction(args, responses, function) ==
    [args |-> args, responses |-> responses, function |-> function]

\* _functions of each interface, as its constructor fills it.
Functions(i) ==
    CASE i = "Device" ->
            [m \in {"reconfigure"} |-> MkFunction(<<>>, <<>>, "reconfigure")]
      [] i = "DPI" ->
            [m \in {"getDPI", "setDPI"} |->
                IF m = "getDPI"
                THEN MkFunction(<<Arg("sensor", TypeInfo_Type("y"))>>,
                                <<Arg("dpi", TypeInfo_Type("q"))>>, "getDPI")
                ELSE MkFunction(<<Arg("sensor", TypeInfo_Type("y")),
                                  Arg("dpi", TypeInfo_Type("q"))>>,
                                <<>>, "setDPI")]
      [] i = "Collaborator" ->
            [m \in {"query"} |->
                MkFunction(<<>>, <<Arg("list", TypeInfo(<<"a", "s">>))>>,
                           "query")]

\* IPCProperty
MkProperty(property, t, readable, writable) ==
    [property |-> property, type |-> t,
     readable |-> readable, writable |-> writable]

\* The feature names Device::IPC::initFeatures stores in supportedFeatures.
FeatureNames == <<IPCVariant_string(<<"d", "p", "i">>, "s")>>

\* _properties of each interface after construction (and initFeatures).
InitialProperties(i) ==
    CASE i = "Device" ->
            [p \in {"name", "asleep", "supportedFeatures"} |->
                CASE p = "name" ->
                        MkProperty(IPCVariant_string(<<"m", "x">>, "s"),
                                   TypeInfo_Type("s"), TRUE, FALSE)
                  [] p = "asleep" ->
                        MkProperty(IPCVariant_num("bool", 0),
                                   TypeInfo_Type("b"), TRUE, FALSE)
                  [] p = "supportedFeatures" ->
                        MkProperty(IPCVariant_array(FeatureNames,
                                                    TypeInfo(<<"a", "s">>)),
                                   TypeInfo(<<"a", "s">>), TRUE, FALSE)]
      [] i = "DPI" ->
            [p \in {"sensorCount"} |->
                MkProperty(IPCVariant_num("uint8_t", 1),
                           TypeInfo_char("y"), TRUE, FALSE)]
      [] i = "Collaborator" ->
            [p \in {"level", "secret"} |->
                IF p = "level"
                THEN MkProperty(IPCVariant_num("uint8_t", 0),
                                TypeInfo_Type("y"), TRUE, TRUE)
                ELSE MkProperty(IPCVariant_num("uint8_t", 0),
                                TypeInfo_Type("y"), FALSE, TRUE)]

(***************************************************************************)
(* State                                                                   *)
(***************************************************************************)
VARIABLES
    _properties,            \* IPCInterface::_properties of each interface
    _server,                \* IPCInterface::_server of each interface
    _nodes,                 \* IPCServer::_nodes: node -> name -> Interface
    exported,               \* the objects registered on the GDBus connection
    next_registration_id,   \* the id GDBus gives the next registration
    _dpis,                  \* DPI::Config::_dpis of the device
    reply,                  \* what the last dispatch handed to the transport
    reg,                    \* the registering thread's position
    writer,                 \* the property-writing thread's position
    _bus_type,              \* IPCServer::_bus_type
    _connection,            \* IPCServer::_connection
    destroyed,              \* the objects whose destructor has run
    outcome,                \* what the last call of an owner came to
    _device_ids,            \* DeviceManager::_device_ids
    threads,                \* the device-creating threads' positions
    build                   \* how the build reads (std::vector<IPCVariant>&)

\* The server's connection and the lifetime of the objects.
lifecycle == <<_bus_type, _connection, destroyed, outcome>>

\* The DeviceManager's ids and the threads that ask for them.
manager == <<_device_ids, threads, build>>

\* No DeviceManager: no id, no thread.
NoManager ==
    /\ _device_ids = {}
    /\ threads = <<>>
    /\ build = "reinterpret_cast"

vars == <<_properties, _server, _nodes, exported, next_registration_id,
          _dpis, reply, reg, writer, lifecycle, manager>>

\* Bounds of the model.
MaxRegistrations == 1

MaxArgs == 2

\* std::map helpers.
MapPut(m, k, v) == [x \in DOMAIN m \cup {k} |-> IF x = k THEN v ELSE m[x]]

MapErase(m, k) == [x \in DOMAIN m \ {k} |-> m[x]]

EmptyMap == <<>>

\* IPCServer::Interface, the registration record.
MkRecord(interface, registrationId, info) ==
    [interface |-> interface, registrationId |-> registrationId, info |-> info]

\* IPCServer::_makeInterfaceInfo: the introspection data of an interface.
_makeInterfaceInfo(i, properties) ==
    LET ArgInfo(args) == [k \in 1..Len(args) |-> typeSignature(args[k].second)]
        MethodInfo(function) == [in_args |-> ArgInfo(function.args),
                                 out_args |-> ArgInfo(function.responses)]
        Methods(functions) ==
            [m \in DOMAIN functions |-> MethodInfo(functions[m])]
    IN  [name |-> Identity(i)._name,
         methods |-> Methods(Functions(i)),
         properties |-> [p \in DOMAIN properties |->
                        [signature |-> typeSignature(properties[p].type),
                         readable |-> properties[p].readable,
                         writable |-> properties[p].writable]]]

NoReply == [entry |-> "none"]

\* No owner has called yet.
NoOutcome == [call |-> "none"]

\* g_bus_get_sync(bus_type): the connection it opens.
g_bus_get_sync(bus_type) == Ptr([bus |-> bus_type])

Idle == [pc |-> "idle"]

Init ==
    /\ _properties = [i \in Interfaces |-> InitialProperties(i)]
    /\ _server = [i \in Interfaces |-> NullPtr]
    /\ _nodes = EmptyMap
    /\ exported = {}
    /\ next_registration_id = 1
    /\ _dpis = <<>>
    /\ NoManager
    /\ reply = NoReply
    /\ reg = Idle
    /\ writer = Idle
    /\ _bus_type = "G_BUS_TYPE_SYSTEM"
    /\ _connection = g_bus_get_sync("G_BUS_TYPE_SYSTEM")
    /\ destroyed = {}
    /\ outcome = NoOutcome

(***************************************************************************)
(* Registration                                                            *)
(***************************************************************************)
\* g_variant_is_object_path: elements separated by single "/".  Of the
\* nodes of the model, the one DPI::IPC builds is none: it puts the root
\* before a node that begins with the root, "...logiops//pizza/...".
g_variant_is_object_path(string) == string # Identity("DPI")._node

\* g_dbus_connection_register_object: the registration id, 0 on failure.
\* It fails without a connection, on a node that is no object path, and
\* when the connection refuses (transport_ok).
RegisterObject(i, transport_ok) ==
    IF /\ _connection # NullPtr
       /\ g_variant_is_object_path(Identity(i)._node)
       /\ transport_ok
    THEN next_registration_id
    ELSE 0

\* The registry after IPCServer::registerInterface(ipc_interface).
ServerRegister(nodes, i, registration_id, info) ==
    LET node == Identity(i)._node
        inner == IF node \in DOMAIN nodes THEN nodes[node] ELSE EmptyMap
    IN  MapPut(nodes, node,
               MapPut(inner, Identity(i)._name,
                      MkRecord(Ptr(i), registration_id, info)))

\* IPCInterface::registerInterface(server) and the
\* IPCServer::registerInterface(this) it calls.  The owner does not register
\* an interface that is registered.
registerInterface(i, transport_ok) ==
    /\ _server[i] = NullPtr
    /\ next_registration_id <= MaxRegistrations
    /\ LET registration_id == RegisterObject(i, transport_ok)
       IN  /\ exported' = IF registration_id # 0
                          THEN exported \cup
                               {[id |-> registration_id,
                                 node |-> Identity(i)._node,
                                 name |-> Identity(i)._name]}
                          ELSE exported
           /\ next_registration_id' = IF registration_id # 0
                                      THEN next_registration_id + 1
                                      ELSE next_registration_id
           /\ _nodes' = ServerRegister(_nodes, i, registration_id,
                                       _makeInterfaceInfo(i, _properties[i]))
    /\ _server' = [_server EXCEPT ![i] = Ptr("server")]
    /\ reply = NoReply
    /\ UNCHANGED reply
    /\ UNCHANGED <<_properties, _dpis, manager, reg, writer, lifecycle>>

\* The registry after IPCServer::unregisterInterface(node, interface).
ServerUnregister(nodes, node, interface) ==
    IF node \notin DOMAIN nodes THEN nodes
    ELSE IF interface \notin DOMAIN nodes[node] THEN nodes
    ELSE LET inner == MapErase(nodes[node], interface)
         IN  IF DOMAIN inner = {} THEN MapErase(nodes, node)
             ELSE MapPut(nodes, node, inner)

\* An unregistration that leaves the object on the connection.
TransportKept(nodes, node, interface) == exported

\* The connection's registrations after IPCServer::unregisterInterface:
\* g_dbus_connection_unregister_object on the record's registrationId.
TransportUnregister(nodes, node, interface) ==
    IF node \notin DOMAIN nodes THEN exported
    ELSE IF interface \notin DOMAIN nodes[node] THEN exported
    ELSE {e \in exported : e.id # nodes[node][interface].registrationId}

\* IPCInterface::unregisterInterface()
unregisterInterface(i) ==
    /\ IF _server[i] # NullPtr
       THEN /\ _nodes' = ServerUnregister(_nodes, Identity(i)._node,
                                          Identity(i)._name)
            /\ exported' = TransportUnregister(_nodes, Identity(i)._node,
                                               Identity(i)._name)
            /\ _server' = [_server EXCEPT ![i] = NullPtr]
       ELSE UNCHANGED <<_nodes, exported, _server>>
    /\ reply = NoReply
    /\ UNCHANGED reply
    /\ UNCHANGED <<_properties, next_registration_id, _dpis, manager, reg, writer,
                   lifecycle>>

(***************************************************************************)
(* IPCInterface accessors                                                  *)
(***************************************************************************)
getFunctions(i) == Functions(i)

getProperties(i) == _properties[i]

\* IPCInterface::getProperty: the stored Variant, or std::invalid_argument.
getProperty(i, property) ==
    IF property \notin DOMAIN _properties[i]
    THEN Throw("invalid_argument", "property")
    ELSE _properties[i][property].property

\* IPCVariant::operator=(const IPCVariant&): every field is copied.
VariantAssign(this, o) ==
    [this EXCEPT !._type = o._type, !._num_data = o._num_data,
                 !._string_data = o._string_data, !._array = o._array,
                 !._dict = o._dict]

\* IPCInterface::setProperty: [properties |-> the new _properties of the
\* interface], or the exception thrown.  std::invalid_argument(value)
\* converts the Variant to std::string first, which throws InvalidType for a
\* Variant that is no string.
setProperty(i, property, value) ==
    IF property \notin DOMAIN _properties[i]
    THEN Throw("invalid_argument", "property")
    ELSE IF TypeNe(_properties[i][property].type, type(value))
    THEN IF Threw(as_string(value)) THEN as_string(value)
         ELSE Throw("invalid_argument", "value")
    ELSE [properties |->
            [_properties[i] EXCEPT ![property].property =
                VariantAssign(_properties[i][property].property, value)]]

(***************************************************************************)
(* Function handlers                                                       *)
(***************************************************************************)
\* What the HID++ backend does when a handler reaches the device: it answers
\* (getSensorDPI gives dpi), or it throws.
HardwareOutcomes ==
    {[ok |-> TRUE, dpi |-> 800], [ok |-> FALSE, what |-> "hidpp20 error"]}

\* std::vector<int>::resize(n)
resize(v, n) == [k \in 1..n |-> IF k <= Len(v) THEN v[k] ELSE 0]

\* DPI::Config::setDPI(dpi, sensor): the new _dpis, and whether the write
\* _dpis[sensor] = dpi fell outside the vector.
Config_setDPI(dpis, dpi, sensor) ==
    LET r == IF Len(dpis) >= sensor THEN resize(dpis, sensor + 1) ELSE dpis
    IN  IF sensor < Len(r)
        THEN [dpis |-> [r EXCEPT ![sensor + 1] = dpi], undefined |-> ""]
        ELSE [dpis |-> r, undefined |-> "out-of-bounds write"]

\* The std::function of each IPCFunction, called with args.  The result is
\* [response, dpis, undefined] or the exception the handler throws.
Handler(function, args, hw) ==
    CASE function = "reconfigure" ->
            [response |-> <<>>, dpis |-> _dpis, undefined |-> ""]
      [] function = "getDPI" ->
            LET sensor == as_num(args[1], "y")
            IN  IF Threw(sensor) THEN sensor
                ELSE IF ~hw.ok THEN Throw("hidpp20::Error", hw.what)
                ELSE [response |-> <<IPCVariant_num("uint16_t", hw.dpi)>>,
                      dpis |-> _dpis, undefined |-> ""]
      [] function = "setDPI" ->
            LET dpi == as_num(args[2], "q")
                sensor == as_num(args[1], "y")
            IN  IF Threw(dpi) THEN dpi
                ELSE IF Threw(sensor) THEN sensor
                ELSE IF ~hw.ok THEN Throw("hidpp20::Error", hw.what)
                ELSE LET c == Config_setDPI(_dpis, dpi.value, sensor.value)
                     IN  [response |-> <<>>, dpis |-> c.dpis,
                          undefined |-> c.undefined]
      [] function = "query" ->
            [response |-> <<IPCVariant_array(FeatureNames,
                                             TypeInfo(<<"a", "s">>))>>,
             dpis |-> _dpis, undefined |-> ""]

(***************************************************************************)
(* Dispatch: the three GDBus entry points                                  *)
(***************************************************************************)
\* What an entry point hands back.  error/message: the GError it set or
\* returned ("" when none); value: the GVariant it returned (NullPtr when
\* none); success: gdbus_set_property's gboolean; exception: the exception
\* that left the entry point (NullPtr when it returned); calls: the handler
\* invocations it made; response: what the handler returned; thrown: what
\* the handler threw; before: the stored property value when it began;
\* inbound: the wire value of the request; interface: the interface object
\* the request was routed to, once its member was found.
Reply(entry, object_path, interface_name, member) ==
    [entry |-> entry, object_path |-> object_path,
     interface_name |-> interface_name, member |-> member,
     error |-> "", message |-> "", value |-> NullPtr, success |-> FALSE,
     exception |-> NullPtr, calls |-> <<>>, before |-> NullPtr,
     undefined |-> "", inbound |-> NullPtr, interface |-> NullPtr,
     response |-> NullPtr, thrown |-> NullPtr]

ReturnError(r, code, message) ==
    [r EXCEPT !.error = code, !.message = message]

Unwinds(r, e) == [r EXCEPT !.exception = e]

\* interface->second.interface->... on a record whose interface pointer is
\* null: the behaviour is undefined.
NullInterface(r) ==
    [r EXCEPT !.undefined = "null Interface pointer dereferenced"]

\* A catch clause that catches IPCVariant::InvalidType only.
IsInvalidType(e) == e.throws = "InvalidType"

\* The exceptions a catch(std::exception&) clause catches.
IsStdException(e) ==
    e.throws \in {"InvalidType", "runtime_error", "invalid_argument",
                  "hidpp20::Error"}

\* g_variant_n_children
g_variant_n_children(variant) == Len(variant.children)

\* g_variant_check_format_string(value, format_string, false) for a format
\* string that is a type signature: the value has that type.
g_variant_check_format_string(value, format_string) ==
    value.gtype = format_string

\* The argument loop of gdbus_method_call, from index i on: [args |-> the
\* translated arguments], [rejected |-> TRUE] when the format check returns
\* early, or the exception translateGVariant throws.
RECURSIVE TranslateArgs(_, _, _, _)
TranslateArgs(parameters, function, i, args) ==
    IF ~(i < Len(function.args))
    THEN [args |-> args]
    ELSE IF g_variant_check_format_string(parameters,
                typeSignature(function.args[i + 1].second))
    THEN [rejected |-> TRUE]
    ELSE LET Pushed(a) ==
                IF Threw(a) THEN a
                ELSE TranslateArgs(parameters, function, i + 1, Append(args, a))
         IN  Pushed(translateGVariant(parameters.children[i + 1]))

\* An arity check that lets a call with too many arguments through.
ArityTooFew(parameters, function) ==
    g_variant_n_children(parameters) < Len(function.args)

\* The arity check of gdbus_method_call.
ArityMismatch(parameters, function) ==
    g_variant_n_children(parameters) # Len(function.args)

\* The try block around the handler call: the handler's result, an
\* exception caught by catch(std::exception&) turned into the error reply.
CallHandler(r, function, args, hw) ==
    LET called == [r EXCEPT !.calls = <<[function |-> function.function,
                                        args |-> args]>>]
        Translated(returned, gstruct) ==
            IF Threw(gstruct) THEN Unwinds(returned, gstruct)
            ELSE [returned EXCEPT !.value = NewTuple(gstruct.garray)]
        Returned(returned, response) ==
            IF response = <<>>
            THEN [returned EXCEPT !.value = NewTuple(<<>>)]
            ELSE Translated(returned, toGVariantChildren(response, 0, <<>>))
        Thrown(thrown, e) ==
            IF IsStdException(e)
            THEN ReturnError(thrown, "FAILED", "Internal error: " \o e.what)
            ELSE Unwinds(thrown, e)
        Handled(res) ==
            IF Threw(res)
            THEN Thrown([called EXCEPT !.thrown = res], res)
            ELSE Returned([called EXCEPT !.response = Ptr(res.response),
                                        !.undefined = res.undefined],
                          res.response)
    IN  Handled(Handler(function.function, args, hw))

\* IPCServer::gdbus_method_call: what it hands back.
MethodCallReply(object_path, interface_name, method_name, parameters, hw) ==
    LET r == [Reply("method_call", object_path, interface_name, method_name)
                EXCEPT !.inbound = parameters]
        Translated(f, function, a) ==
            IF Threw(a)
            THEN IF a.throws = "InvalidType"
                 THEN ReturnError(f, "INVALID_ARGS", "Invalid argument")
                 ELSE Unwinds(f, a)
            ELSE IF "rejected" \in DOMAIN a
            THEN ReturnError(f, "INVALID_ARGS", "Invalid argument")
            ELSE CallHandler(f, function, a.args, hw)
        Found(f, function) ==
            IF ArityMismatch(parameters, function)
            THEN ReturnError(f, "INVALID_ARGS", "Invalid argument")
            ELSE Translated(f, function,
                            TranslateArgs(parameters, function, 0, <<>>))
        Routed(interface, functions) ==
            IF method_name \notin DOMAIN functions
            THEN ReturnError(r, "UNKNOWN_METHOD", "Unknown method")
            ELSE Found([r EXCEPT !.interface = Ptr(interface)],
                       functions[method_name])
    IN  IF object_path \notin DOMAIN _nodes
        THEN ReturnError(r, "UNKNOWN_OBJECT", "Unknown object")
        ELSE IF interface_name \notin DOMAIN _nodes[object_path]
        THEN ReturnError(r, "UNKNOWN_INTERFACE", "Unknown interface")
        ELSE IF _nodes[object_path][interface_name].interface = NullPtr
        THEN NullInterface(r)
        ELSE Routed(_nodes[object_path][interface_name].interface.ptr,
                    getFunctions(
                        _nodes[object_path][interface_name].interface.ptr))

\* DPI::Config::_dpis after the call: the handler's effect, when one ran to
\* its end.
MethodCallDpis(r, hw) ==
    LET Stored(res) == IF Threw(res) THEN _dpis ELSE res.dpis
    IN  IF r.calls = <<>> THEN _dpis
        ELSE Stored(Handler(r.calls[1].function, r.calls[1].args, hw))

\* IPCServer::gdbus_method_call
gdbus_method_call(object_path, interface_name, method_name, parameters, hw) ==
    /\ reply = NoReply
    /\ reply' = MethodCallReply(object_path, interface_name, method_name,
                                parameters, hw)
    /\ _dpis' = MethodCallDpis(reply', hw)
    /\ UNCHANGED <<_properties, _server, _nodes, exported,
                   next_registration_id, reg, writer, lifecycle, manager>>

\* IPCServer::gdbus_get_property: what it hands back.
GetPropertyReply(object_path, interface_name, property_name) ==
    LET r == Reply("get_property", object_path, interface_name, property_name)
        Returned(e, stored, g) ==
            IF Threw(g)
            THEN Unwinds([e EXCEPT !.before = stored], g)
            ELSE [e EXCEPT !.value = g, !.before = stored]
        Found(f, interface, property) ==
            Returned(IF ~property.readable
                     THEN ReturnError(f, "ACCESS_DENIED",
                                      "Property not readable")
                     ELSE f,
                     getProperty(interface, property_name),
                     toGVariant(getProperty(interface, property_name)))
        Routed(interface, properties) ==
            IF property_name \notin DOMAIN properties
            THEN ReturnError(r, "UNKNOWN_PROPERTY", "Unknown property")
            ELSE Found([r EXCEPT !.interface = Ptr(interface)], interface,
                       properties[property_name])
    IN  IF object_path \notin DOMAIN _nodes
        THEN ReturnError(r, "UNKNOWN_OBJECT", "Unknown object")
        ELSE IF interface_name \notin DOMAIN _nodes[object_path]
        THEN ReturnError(r, "UNKNOWN_INTERFACE", "Unknown interface")
        ELSE IF _nodes[object_path][interface_name].interface = NullPtr
        THEN NullInterface(r)
        ELSE Routed(_nodes[object_path][interface_name].interface.ptr,
                    getProperties(
                        _nodes[object_path][interface_name].interface.ptr))

\* IPCServer::gdbus_get_property
gdbus_get_property(object_path, interface_name, property_name) ==
    /\ reply = NoReply
    /\ reply' = GetPropertyReply(object_path, interface_name, property_name)
    /\ UNCHANGED <<_properties, _server, _nodes, exported,
                   next_registration_id, _dpis, manager, reg, writer, lifecycle>>

\* IPCServer::gdbus_set_property: what it hands back, and in `properties`
\* the _properties of the interface after it.
SetPropertyReply(object_path, interface_name, property_name, value) ==
    LET r == [Reply("set_property", object_path, interface_name, property_name)
                EXCEPT !.inbound = value]
        Stored(e, set) ==
            IF Threw(set) THEN Unwinds(e, set)
            ELSE [e EXCEPT !.success = TRUE] @@ [properties |-> set.properties]
        Translated(b, interface, property, ipc_variant) ==
            IF Threw(ipc_variant) THEN Unwinds(b, ipc_variant)
            ELSE IF TypeNe(type(ipc_variant), property.type)
            THEN ReturnError(b, "INVALID_ARGS", "Invalid argument")
            ELSE Stored(IF ~property.writable
                        THEN ReturnError(b, "ACCESS_DENIED",
                                         "Property not writable")
                        ELSE b,
                        setProperty(interface, property_name, ipc_variant))
        Routed(interface, properties) ==
            IF property_name \notin DOMAIN properties
            THEN ReturnError(r, "UNKNOWN_PROPERTY", "Unknown property")
            ELSE Translated([r EXCEPT
                                !.before = properties[property_name].property,
                                !.interface = Ptr(interface)],
                            interface, properties[property_name],
                            translateGVariant(value))
    IN  IF object_path \notin DOMAIN _nodes
        THEN ReturnError(r, "UNKNOWN_OBJECT", "Unknown object")
        ELSE IF interface_name \notin DOMAIN _nodes[object_path]
        THEN ReturnError(r, "UNKNOWN_INTERFACE", "Unknown interface")
        ELSE IF _nodes[object_path][interface_name].interface = NullPtr
        THEN NullInterface(r)
        ELSE Routed(_nodes[object_path][interface_name].interface.ptr,
                    getProperties(
                        _nodes[object_path][interface_name].interface.ptr))

\* IPCServer::gdbus_set_property
gdbus_set_property(object_path, interface_name, property_name, value) ==
    LET Handed(r) ==
            /\ reply' = [x \in DOMAIN r \ {"properties"} |-> r[x]]
            /\ _properties' = IF "properties" \in DOMAIN r
                              THEN [_properties EXCEPT
                                        ![r.interface.ptr] = r.properties]
                              ELSE _properties
    IN  /\ reply = NoReply
        /\ Handed(SetPropertyReply(object_path, interface_name,
                                   property_name, value))
        /\ UNCHANGED <<_server, _nodes, exported, next_registration_id,
                       _dpis, manager, reg, writer, lifecycle>>

(***************************************************************************)
(* Inbound requests of the model                                           *)
(***************************************************************************)
Scalar(t, n) == MkGVariant(<<t>>, n, <<>>, <<>>)

String(str) == MkGVariant(<<"s">>, 0, str, <<>>)

\* The values an inbound call carries as arguments: a Byte and a UInt16.
WireArgs == {Scalar("y", 0), Scalar("q", 400)}

\* The parameter tuples of at most n arguments.
RECURSIVE Tuples(_)
Tuples(n) ==
    IF n = 0 THEN {<<>>}
    ELSE Tuples(n - 1) \cup
         {Append(t, a) : t \in {u \in Tuples(n - 1) : Len(u) = n - 1},
                         a \in WireArgs}

Parameters == {NewTuple(t) : t \in Tuples(MaxArgs)}

\* The values an inbound property write carries; the last is a file handle,
\* a type the value system does not know.
WireValues ==
    {Scalar("b", 1), Scalar("y", 0), Scalar("i", 5), Scalar("h", 7)}

\* The requests name the nodes, interfaces and members of the model's
\* interface objects, in every combination: a node or an interface that is
\* not registered is unknown to the server, and so is a member of another
\* interface.
ObjectPaths == {Identity(i)._node : i \in Interfaces}

InterfaceNames == {Identity(i)._name : i \in Interfaces}

MethodNames == UNION {DOMAIN Functions(i) : i \in Interfaces}

PropertyNames == UNION {DOMAIN InitialProperties(i) : i \in Interfaces}

\* IPCServer::listen: the main loop hands the callback's result to the
\* transport and turns to the next request.
listen ==
    /\ reply # NoReply
    /\ reply' = NoReply
    /\ UNCHANGED <<_properties, _server, _nodes, exported,
                   next_registration_id, _dpis, manager, reg, writer, lifecycle>>

Next ==
    \/ \E i \in Interfaces, ok \in BOOLEAN : registerInterface(i, ok)
    \/ \E i \in Interfaces : unregisterInterface(i)
    \/ \E o \in ObjectPaths, n \in InterfaceNames, m \in MethodNames,
          p \in Parameters, hw \in HardwareOutcomes :
            gdbus_method_call(o, n, m, p, hw)
    \/ \E o \in ObjectPaths, n \in InterfaceNames, p \in PropertyNames :
            gdbus_get_property(o, n, p)
    \/ \E o \in ObjectPaths, n \in InterfaceNames, p \in PropertyNames,
          v \in WireValues :
            gdbus_set_property(o, n, p, v)
    \/ listen

Spec == Init /\ [][Next]_vars

(***************************************************************************)
(* Registration on a background thread while the main loop dispatches      *)
(***************************************************************************)
\* The state in which the main loop serves the Device interface.
InitServing ==
    /\ _properties = [i \in Interfaces |-> InitialProperties(i)]
    /\ _server = [i \in Interfaces |->
                    IF i = "Device" THEN Ptr("server") ELSE NullPtr]
    /\ _nodes = ServerRegister(EmptyMap, "Device", 1,
                    _makeInterfaceInfo("Device", InitialProperties("Device")))
    /\ exported = {[id |-> 1, node |-> Identity("Device")._node,
                    name |-> Identity("Device")._name]}
    /\ next_registration_id = 2
    /\ _dpis = <<>>
    /\ NoManager
    /\ reply = NoReply
    /\ reg = Idle
    /\ writer = Idle
    /\ _bus_type = "G_BUS_TYPE_SYSTEM"
    /\ _connection = g_bus_get_sync("G_BUS_TYPE_SYSTEM")
    /\ destroyed = {}
    /\ outcome = NoOutcome

\* IPCInterface::registerInterface and IPCServer::registerInterface up to
\* the return of g_dbus_connection_register_object.
RegisterObjectStep(i, transport_ok) ==
    /\ reg = Idle
    /\ _server[i] = NullPtr
    /\ _server' = [_server EXCEPT ![i] = Ptr("server")]
    /\ LET registration_id == RegisterObject(i, transport_ok)
       IN  /\ exported' = IF registration_id # 0
                          THEN exported \cup
                               {[id |-> registration_id,
                                 node |-> Identity(i)._node,
                                 name |-> Identity(i)._name]}
                          ELSE exported
           /\ next_registration_id' = IF registration_id # 0
                                      THEN next_registration_id + 1
                                      ELSE next_registration_id
           /\ reg' = [pc |-> "node", interface |-> i,
                      registration_id |-> registration_id]
    /\ UNCHANGED <<_properties, _nodes, _dpis, manager, reply, writer, lifecycle>>

\* _nodes[node]: std::map::operator[] inserts an empty inner map for a node
\* the registry does not hold.
RegisterNodeStep ==
    /\ reg.pc = "node"
    /\ LET node == Identity(reg.interface)._node
       IN  _nodes' = IF node \in DOMAIN _nodes THEN _nodes
                     ELSE MapPut(_nodes, node, EmptyMap)
    /\ reg' = [reg EXCEPT !.pc = "name"]
    /\ UNCHANGED <<_properties, _server, exported, next_registration_id,
                   _dpis, manager, reply, writer, lifecycle>>

\* _nodes[node][name]: std::map::operator[] inserts a value-initialised
\* Interface record.
RegisterNameStep ==
    /\ reg.pc = "name"
    /\ LET node == Identity(reg.interface)._node
           name == Identity(reg.interface)._name
       IN  _nodes' = MapPut(_nodes, node,
                        MapPut(_nodes[node], name, MkRecord(NullPtr, 0, NullPtr)))
    /\ reg' = [reg EXCEPT !.pc = "record"]
    /\ UNCHANGED <<_properties, _server, exported, next_registration_id,
                   _dpis, manager, reply, writer, lifecycle>>

\* ... = {ipc_interface, registration_id, info}: the record is assigned.
RegisterRecordStep ==
    /\ reg.pc = "record"
    /\ _nodes' = ServerRegister(_nodes, reg.interface, reg.registration_id,
                    _makeInterfaceInfo(reg.interface,
                                       _properties[reg.interface]))
    /\ reg' = Idle
    /\ UNCHANGED <<_properties, _server, exported, next_registration_id,
                   _dpis, manager, reply, writer, lifecycle>>

NextServing ==
    \/ \E i \in Interfaces, ok \in BOOLEAN : RegisterObjectStep(i, ok)
    \/ RegisterNodeStep
    \/ RegisterNameStep
    \/ RegisterRecordStep
    \/ \E o \in ObjectPaths, n \in InterfaceNames, m \in MethodNames,
          p \in Parameters, hw \in HardwareOutcomes :
            gdbus_method_call(o, n, m, p, hw)
    \/ listen

SpecServing == InitServing /\ [][NextServing]_vars

(***************************************************************************)
(* Property writes on another thread while the main loop dispatches reads  *)
(***************************************************************************)
\* The values the owner gives the Device's name.
NameValues == {<<"m", "x">>, <<"a", "b", "c">>}

\* std::string::operator= after the characters are copied and before the
\* length is set: the new characters under the old length.
CopyChars(old, new) ==
    [k \in 1..Len(old) |-> IF k <= Len(new) THEN new[k] ELSE old[k]]

\* The stored Variant of the property the writer is in.
Stored == _properties[writer.interface][writer.property].property

StoreField(v) ==
    [_properties EXCEPT ![writer.interface][writer.property].property = v]

\* Device::IPC::sleep and Device::IPC::wakeup: operator=(const bool&)
\* stores _num_data.
DeviceSleep(asleep) ==
    /\ _properties' = [_properties EXCEPT
            !["Device"]["asleep"].property._num_data = IF asleep THEN 1 ELSE 0]
    /\ UNCHANGED <<_server, _nodes, exported, next_registration_id, _dpis, manager,
                   reply, reg, writer, lifecycle>>

\* IPCInterface::setProperty up to the assignment: the property is found
\* and the type agrees.
SetPropertyEnter(i, property, value) ==
    /\ writer = Idle
    /\ ~Threw(setProperty(i, property, value))
    /\ writer' = [pc |-> "_type", interface |-> i, property |-> property,
                  o |-> value]
    /\ UNCHANGED <<_properties, _server, _nodes, exported,
                   next_registration_id, _dpis, manager, reply, reg, lifecycle>>

\* IPCVariant::operator=(const IPCVariant&): _type = o._type
AssignType ==
    /\ writer.pc = "_type"
    /\ _properties' = StoreField([Stored EXCEPT !._type = writer.o._type])
    /\ writer' = [writer EXCEPT !.pc = "_num_data"]
    /\ UNCHANGED <<_server, _nodes, exported, next_registration_id, _dpis, manager,
                   reply, reg, lifecycle>>

\* _num_data = o._num_data
AssignNumData ==
    /\ writer.pc = "_num_data"
    /\ _properties' = StoreField([Stored EXCEPT
                                    !._num_data = writer.o._num_data])
    /\ writer' = [writer EXCEPT !.pc = "_string_data"]
    /\ UNCHANGED <<_server, _nodes, exported, next_registration_id, _dpis, manager,
                   reply, reg, lifecycle>>

\* _string_data = o._string_data, the characters
AssignStringChars ==
    /\ writer.pc = "_string_data"
    /\ _properties' = StoreField([Stored EXCEPT !._string_data =
                        CopyChars(Stored._string_data, writer.o._string_data)])
    /\ writer' = [writer EXCEPT !.pc = "length"]
    /\ UNCHANGED <<_server, _nodes, exported, next_registration_id, _dpis, manager,
                   reply, reg, lifecycle>>

\* _string_data = o._string_data, the length
AssignStringLength ==
    /\ writer.pc = "length"
    /\ _properties' = StoreField([Stored EXCEPT
                                    !._string_data = writer.o._string_data])
    /\ writer' = [writer EXCEPT !.pc = "_array"]
    /\ UNCHANGED <<_server, _nodes, exported, next_registration_id, _dpis, manager,
                   reply, reg, lifecycle>>

\* _array = o._array
AssignArray ==
    /\ writer.pc = "_array"
    /\ _properties' = StoreField([Stored EXCEPT !._array = writer.o._array])
    /\ writer' = [writer EXCEPT !.pc = "_dict"]
    /\ UNCHANGED <<_server, _nodes, exported, next_registration_id, _dpis, manager,
                   reply, reg, lifecycle>>

\* _dict = o._dict, and the return
AssignDict ==
    /\ writer.pc = "_dict"
    /\ _properties' = StoreField([Stored EXCEPT !._dict = writer.o._dict])
    /\ writer' = Idle
    /\ UNCHANGED <<_server, _nodes, exported, next_registration_id, _dpis, manager,
                   reply, reg, lifecycle>>

NextWriting ==
    \/ \E asleep \in BOOLEAN : DeviceSleep(asleep)
    \/ \E v \in NameValues :
            SetPropertyEnter("Device", "name", IPCVariant_string(v, "s"))
    \/ AssignType
    \/ AssignNumData
    \/ AssignStringChars
    \/ AssignStringLength
    \/ AssignArray
    \/ AssignDict
    \/ \E o \in ObjectPaths, n \in InterfaceNames, p \in PropertyNames :
            gdbus_get_property(o, n, p)
    \/ listen

SpecWriting == InitServing /\ [][NextWriting]_vars

(***************************************************************************)
(* Properties of dispatch and registration                                 *)
(***************************************************************************)
\* The declaration of the property a routed property request names.
Declared == _properties[reply.interface.ptr][reply.member]

\* The declaration of the method a routed method call names.
Called == Functions(reply.interface.ptr)[reply.member]

WriteRouted == reply.entry = "set_property" /\ reply.interface # NullPtr

ReadRouted == reply.entry = "get_property" /\ reply.interface # NullPtr

CallRouted == reply.entry = "method_call" /\ reply.interface # NullPtr

\* C1: a write, through gdbus_set_property, to a property declared
\* readable and not writable fails with ACCESS_DENIED and leaves the stored
\* value as it was, whatever the inbound value.
ReadOnlyWriteDenied ==
    (WriteRouted /\ Declared.readable /\ ~Declared.writable)
        => /\ reply.error = "ACCESS_DENIED"
           /\ ~reply.success
           /\ Declared.property = reply.before

\* C2: gdbus_get_property on a property that is not readable fails with
\* ACCESS_DENIED and returns no value; a value is returned for a readable
\* property only.
UnreadableReadDenied ==
    /\ (ReadRouted /\ ~Declared.readable)
            => reply.error = "ACCESS_DENIED" /\ reply.value = NullPtr
    /\ (reply.entry = "get_property" /\ reply.value # NullPtr)
            => ReadRouted /\ Declared.readable

\* The inbound call has the declared number of arguments and one of them
\* has another type than declared.
ArgumentTypeMismatch ==
    /\ Len(reply.inbound.children) = Len(Called.args)
    /\ \E k \in 1..Len(Called.args) :
            reply.inbound.children[k].gtype # typeSignature(Called.args[k].second)

\* C3: the handler is invoked only with Variants of exactly the declared
\* argument types, and a call with the right count and an argument of
\* another type fails with INVALID_ARGS without invoking the handler.
HandlerArgumentsTyped ==
    CallRouted =>
        /\ \A c \in 1..Len(reply.calls) :
              /\ Len(reply.calls[c].args) = Len(Called.args)
              /\ \A k \in 1..Len(Called.args) :
                    TypeEq(type(reply.calls[c].args[k]), Called.args[k].second)
        /\ ArgumentTypeMismatch
              => reply.error = "INVALID_ARGS" /\ reply.calls = <<>>

\* C4: gdbus_method_call checks the node, then the interface name, then the
\* method name, then the argument count, and answers the first failure with
\* UNKNOWN_OBJECT, UNKNOWN_INTERFACE, UNKNOWN_METHOD or INVALID_ARGS without
\* invoking the handler.
LookupOrder ==
    reply.entry = "method_call" =>
        IF reply.object_path \notin DOMAIN _nodes
        THEN reply.error = "UNKNOWN_OBJECT" /\ reply.calls = <<>>
        ELSE IF reply.interface_name \notin DOMAIN _nodes[reply.object_path]
        THEN reply.error = "UNKNOWN_INTERFACE" /\ reply.calls = <<>>
        ELSE IF reply.member \notin DOMAIN Functions(
                    _nodes[reply.object_path][reply.interface_name]
                        .interface.ptr)
        THEN reply.error = "UNKNOWN_METHOD" /\ reply.calls = <<>>
        ELSE (Len(reply.inbound.children) # Len(Called.args))
                => reply.error = "INVALID_ARGS" /\ reply.calls = <<>>

\* getDPI called with no argument was answered INVALID_ARGS.
LookupOrderWitness ==
    /\ CallRouted
    /\ reply.member = "getDPI"
    /\ reply.inbound.children = <<>>
    /\ reply.error = "INVALID_ARGS"
    /\ reply.calls = <<>>

\* C5: a call that passes the checks invokes the handler once with the
\* translated arguments and returns the handler's response Variants in
\* order, each with its TypeSignature (an empty response for none).
ResponseReturned ==
    (CallRouted /\ reply.response # NullPtr)
        => /\ Len(reply.calls) = 1
           /\ reply.error = ""
           /\ reply.value # NullPtr
           /\ Len(reply.value.children) = Len(reply.response.ptr)
           /\ \A k \in 1..Len(reply.response.ptr) :
                reply.value.children[k].gtype
                    = typeSignature(type(reply.response.ptr[k]))

\* C6: an exception a handler raises is caught in gdbus_method_call and
\* answered as G_DBUS_ERROR_FAILED with "Internal error: " and the
\* exception's message; it does not leave the entry point, and the main
\* loop goes on.
HandlerExceptionCaught ==
    (reply.entry = "method_call" /\ reply.thrown # NullPtr)
        => /\ reply.exception = NullPtr
           /\ reply.error = "FAILED"
           /\ reply.message = "Internal error: " \o reply.thrown.what
           /\ ENABLED listen

\* getDPI was invoked, the device did not answer, and the caller got
\* the internal error.
HandlerExceptionWitness ==
    /\ CallRouted
    /\ reply.member = "getDPI"
    /\ reply.thrown # NullPtr
    /\ reply.thrown.throws = "hidpp20::Error"
    /\ reply.error = "FAILED"

\* C7: no exception leaves gdbus_method_call, gdbus_get_property or
\* gdbus_set_property: each returns a result or a typed failure.
NothingUnwinds ==
    reply.entry # "none" => reply.exception = NullPtr

\* The (node, name) pairs the registry holds a record for.
RegistryRecords ==
    {<<node, name>> \in ObjectPaths \X InterfaceNames :
        node \in DOMAIN _nodes /\ name \in DOMAIN _nodes[node]}

\* The (node, name) pairs registered with the connection.
TransportRegistrations == {<<e.node, e.name>> : e \in exported}

\* C9: while an interface is registered on another thread, a method call
\* the main loop dispatches never finds a registry record that is not fully
\* populated: the lookup finds a record with its Interface pointer set, or
\* nothing.
NoHalfInsertedRecordRouted ==
    reply.entry = "method_call"
        => reply.undefined # "null Interface pointer dereferenced"

\* C10: a property read the main loop dispatches while another thread writes
\* the property returns a value that was written whole: for the Device's
\* name, one of the names the owner stored.
NameReadWhole ==
    (ReadRouted /\ reply.member = "name" /\ reply.value # NullPtr)
        => reply.value.str \in NameValues

\* C8: the registry holds a record for exactly the (node, name) pairs that
\* are registered with the connection; a registration the transport
\* refuses leaves no record.
RegistryMatchesTransport == RegistryRecords = TransportRegistrations

(***************************************************************************)
(* Signals                                                                 *)
(***************************************************************************)
\* _signals of each interface, as its constructor fills it: the Device's
\* wakeup and sleep carry nothing; the collaborator declares one signal
\* with a Byte and one with an array of strings.
Signals(i) ==
    CASE i = "Device" -> [x \in {"wakeup", "sleep"} |-> <<>>]
      [] i = "DPI" -> EmptyMap
      [] i = "Collaborator" ->
            [x \in {"changed", "listed"} |->
                IF x = "changed"
                THEN <<Arg("level", TypeInfo_char("y"))>>
                ELSE <<Arg("list", TypeInfo(<<"a", "s">>))>>]

\* IPCInterface::getSignals
getSignals(i) == Signals(i)

\* What a call of an owner came to: what the call found (before), the
\* exception it raised (NullPtr for none), the object it built (result),
\* how often the server was asked to broadcast, the calls of
\* g_dbus_connection_emit_signal it made, and the undefined behaviour it
\* ran into.
Outcome(call, interface, member, args) ==
    [call |-> call, interface |-> interface, member |-> member,
     args |-> args, before |-> NullPtr, raised |-> NullPtr,
     result |-> NullPtr, asked |-> 0, attempts |-> <<>>,
     undefined |-> NullPtr]

Raised(o, e) == [o EXCEPT !.raised = Ptr(e)]

\* g_dbus_connection_emit_signal: FALSE without a connection, on a node that
\* is no object path, and when the connection rejects the message.
g_dbus_connection_emit_signal(connection, object_path, transport_ok) ==
    /\ connection # NullPtr
    /\ g_variant_is_object_path(object_path)
    /\ transport_ok

\* One call of g_dbus_connection_emit_signal, as the transport sees it.
Broadcast(i, signal, gparams) ==
    [connection |-> _connection, object_path |-> Identity(i)._node,
     interface_name |-> Identity(i)._name, signal_name |-> signal,
     parameters |-> gparams]

\* IPCServer::emitSignal(interface, signal, params), entered with outcome o.
IPCServer_emitSignal(o, i, signal, params, transport_ok) ==
    LET Emitted(e) ==
            IF g_dbus_connection_emit_signal(_connection, Identity(i)._node,
                                             transport_ok)
            THEN e
            ELSE Raised(e, Throw("runtime_error", "signal broadcast failed"))
        Sent(gparams) ==
            Emitted([o EXCEPT !.attempts =
                        Append(@, Broadcast(i, signal, gparams))])
        Translated(gstruct) ==
            IF Threw(gstruct) THEN Raised(o, gstruct)
            ELSE Sent(Ptr(NewTuple(gstruct.garray)))
    IN  IF params # <<>>
        THEN Translated(toGVariantChildren(params, 0, <<>>))
        ELSE Sent(NullPtr)

\* An interface that takes itself for registered whatever _server holds.
AlwaysBound(i) == TRUE

\* if(_server): the interface has a server.
Bound(i) == _server[i] # NullPtr

\* A type loop that finds nothing.
NoneMistyped(args, info) == 0

\* The first argument whose type is not the declared one, 0 for none.
FirstMistyped(args, info) ==
    IF \E k \in 1..Len(args) : TypeNe(type(args[k]), info[k].second)
    THEN CHOOSE k \in 1..Len(args) :
            /\ TypeNe(type(args[k]), info[k].second)
            /\ \A j \in 1..(k - 1) : TypeEq(type(args[j]), info[j].second)
    ELSE 0

\* IPCInterface::emitSignal(signal, args): what the call comes to.
EmitSignalOutcome(i, signal, args, transport_ok) ==
    LET o == Outcome("emitSignal", i, signal, args)
    IN  IF ~Bound(i) THEN o
        ELSE IF signal \notin DOMAIN getSignals(i)
        THEN Raised(o, Throw("invalid_argument", signal))
        ELSE IF Len(getSignals(i)[signal]) # Len(args)
        THEN Raised(o, Throw("invalid_argument", "args"))
        ELSE IF FirstMistyped(args, getSignals(i)[signal]) # 0
        THEN Raised(o, Throw("invalid_argument", "type"))
        ELSE IF "server" \in destroyed
        THEN [o EXCEPT !.asked = 1,
                       !.undefined = Ptr("destroyed IPCServer used")]
        ELSE IPCServer_emitSignal([o EXCEPT !.asked = 1], i, signal, args,
                                  transport_ok)

\* IPCInterface::emitSignal
emitSignal(i, signal, args, transport_ok) ==
    /\ outcome' = EmitSignalOutcome(i, signal, args, transport_ok)
    /\ UNCHANGED <<_properties, _server, _nodes, exported,
                   next_registration_id, _dpis, manager, reply, reg, writer,
                   _bus_type, _connection, destroyed>>

(***************************************************************************)
(* Calls of the owners, the end of the objects and the loss of the bus     *)
(***************************************************************************)
\* A call of IPCInterface::setProperty by the owner of the interface.
callSetProperty(i, property, value) ==
    LET o == [Outcome("setProperty", i, property, <<value>>) EXCEPT
                !.before = Ptr(_properties[i])]
        Done(set) ==
            IF Threw(set)
            THEN /\ outcome' = Raised(o, set)
                 /\ UNCHANGED _properties
            ELSE /\ outcome' = o
                 /\ _properties' = [_properties EXCEPT ![i] = set.properties]
    IN  /\ Done(setProperty(i, property, value))
        /\ UNCHANGED <<_server, _nodes, exported, next_registration_id,
                       _dpis, manager, reply, reg, writer, _bus_type, _connection,
                       destroyed>>

\* _properties["asleep"].property = asleep: operator=(const bool&) on the
\* property of the Device interface.  The result is [properties |-> the
\* Device's _properties] or InvalidType.
AssignAsleep(asleep) ==
    IF primaryType(type(_properties["Device"]["asleep"].property)) # "b"
    THEN InvalidType
    ELSE [properties |->
            [_properties["Device"] EXCEPT
                !["asleep"].property._num_data = IF asleep THEN 1 ELSE 0]]

\* A sleep() that broadcasts the signal first and stores the state after.
Device_IPC_sleep_late(asleep, transport_ok) ==
    LET signal == IF asleep THEN "sleep" ELSE "wakeup"
        Slept(set) ==
            IF Threw(set)
            THEN /\ outcome' = Raised(Outcome(signal, "Device", signal, <<>>),
                                      set)
                 /\ UNCHANGED _properties
            ELSE /\ _properties' = [_properties EXCEPT
                                        !["Device"] = set.properties]
                 /\ outcome' =
                        [EmitSignalOutcome("Device", signal, <<>>, transport_ok)
                            EXCEPT !.call = signal,
                                   !.before =
                                      Ptr(_properties["Device"]["asleep"].property)]
    IN  /\ Slept(AssignAsleep(asleep))
        /\ UNCHANGED <<_server, _nodes, exported, next_registration_id,
                       _dpis, manager, reply, reg, writer, _bus_type, _connection,
                       destroyed>>

\* Device::IPC::sleep() (asleep) and Device::IPC::wakeup() (~asleep), as
\* Device::sleep() and Device::wakeup() call them: the property is stored,
\* then emitSignal runs.  `before` of the outcome is the property a read
\* finds while emitSignal runs.
Device_IPC_sleep(asleep, transport_ok) ==
    LET signal == IF asleep THEN "sleep" ELSE "wakeup"
        Slept(set) ==
            IF Threw(set)
            THEN /\ outcome' = Raised(Outcome(signal, "Device", signal, <<>>),
                                      set)
                 /\ UNCHANGED _properties
            ELSE /\ _properties' = [_properties EXCEPT
                                        !["Device"] = set.properties]
                 /\ outcome' =
                        [EmitSignalOutcome("Device", signal, <<>>, transport_ok)
                            EXCEPT !.call = signal,
                                   !.before = Ptr(set.properties["asleep"].property)]
    IN  /\ Slept(AssignAsleep(asleep))
        /\ UNCHANGED <<_server, _nodes, exported, next_registration_id,
                       _dpis, manager, reply, reg, writer, _bus_type, _connection,
                       destroyed>>

\* The interfaces of the model in the order std::map keeps their (node,
\* name) keys: the DPI node ("...logiops//pizza...") sorts before the
\* device's node, and under that node "...Collaborator" before "...Device".
RegistryOrder == <<"DPI", "Collaborator", "Device">>

Recorded(nodes, i) ==
    /\ Identity(i)._node \in DOMAIN nodes
    /\ Identity(i)._name \in DOMAIN nodes[Identity(i)._node]

\* The records of the registry in iteration order, each by the interface
\* its key belongs to.
RegistryEntries(nodes) == SelectSeq(RegistryOrder, LAMBDA i : Recorded(nodes, i))

\* A destructor that leaves the registry as it is.
DestroyWithoutUnregister(i) ==
    /\ i \notin destroyed
    /\ destroyed' = destroyed \cup {i}
    /\ outcome' = [Outcome("~IPCInterface", i, "unregisterInterface", <<>>)
                    EXCEPT !.before = _server[i]]
    /\ UNCHANGED <<_properties, _server, _nodes, exported,
                   next_registration_id, _dpis, manager, reply, reg, writer,
                   _bus_type, _connection>>

\* IPCInterface::~IPCInterface: unregisterInterface().  An interface whose
\* _server points to a destroyed server calls into the freed object.
IPCInterface_destroy(i) ==
    LET o == Outcome("~IPCInterface", i, "unregisterInterface", <<>>)
    IN  /\ i \notin destroyed
        /\ destroyed' = destroyed \cup {i}
        /\ IF ~Bound(i)
           THEN /\ UNCHANGED <<_nodes, exported, _server>>
                /\ outcome' = o
           ELSE IF "server" \in destroyed
           THEN /\ UNCHANGED <<_nodes, exported>>
                /\ _server' = [_server EXCEPT ![i] = NullPtr]
                /\ outcome' = [o EXCEPT
                                !.before = _server[i],
                                !.undefined = Ptr("destroyed IPCServer used")]
           ELSE /\ _nodes' = ServerUnregister(_nodes, Identity(i)._node,
                                              Identity(i)._name)
                /\ exported' = TransportUnregister(_nodes, Identity(i)._node,
                                                   Identity(i)._name)
                /\ _server' = [_server EXCEPT ![i] = NullPtr]
                /\ outcome' = [o EXCEPT !.before = _server[i]]
        /\ UNCHANGED <<_properties, next_registration_id, _dpis, manager, reply, reg,
                       writer, _bus_type, _connection>>

\* IPCServer::~IPCServer: the name is given up, the connection closed, and
\* the loops over _nodes call unregisterInterface() of every record's
\* interface.  The call erases the record the inner iterator stands on (and
\* the node the outer iterator stands on, once it is empty), so the
\* increment after the first call uses an invalidated iterator: the loops
\* go on over the following `visited - 1` records, or end there.  The
\* registry itself ends with the server.
IPCServer_destroy(visited) ==
    /\ "server" \notin destroyed
    /\ visited \in 0..Len(RegistryEntries(_nodes))
    /\ (visited = 0) = (RegistryEntries(_nodes) = <<>>)
    /\ destroyed' = destroyed \cup {"server"}
    /\ _server' = [i \in Interfaces |->
                    IF \E k \in 1..visited : RegistryEntries(_nodes)[k] = i
                    THEN NullPtr ELSE _server[i]]
    /\ _nodes' = EmptyMap
    /\ exported' = {}
    /\ outcome' = [Outcome("~IPCServer", "server", "", <<>>) EXCEPT
                    !.before = Ptr(RegistryEntries(_nodes)),
                    !.undefined = IF visited = 0 THEN NullPtr
                                  ELSE Ptr("iterator of _nodes invalidated")]
    /\ UNCHANGED <<_properties, next_registration_id, _dpis, manager, reply, reg,
                   writer, _bus_type, _connection>>

\* The loop of name_lost_handler from the k-th record on: every record gets
\* the id g_dbus_connection_register_object returns on the new connection.
RECURSIVE Reregister(_, _, _, _, _, _, _)
Reregister(entries, k, nodes, objects, id, connection, transport_ok) ==
    IF k > Len(entries)
    THEN [nodes |-> nodes, exported |-> objects, next |-> id]
    ELSE IF /\ connection # NullPtr
            /\ g_variant_is_object_path(Identity(entries[k])._node)
            /\ transport_ok
    THEN Reregister(entries, k + 1,
            [nodes EXCEPT ![Identity(entries[k])._node]
                            [Identity(entries[k])._name].registrationId = id],
            objects \cup {[id |-> id, node |-> Identity(entries[k])._node,
                           name |-> Identity(entries[k])._name]},
            id + 1, connection, transport_ok)
    ELSE Reregister(entries, k + 1,
            [nodes EXCEPT ![Identity(entries[k])._node]
                            [Identity(entries[k])._name].registrationId = 0],
            objects, id, connection, transport_ok)

\* std::terminate has ended the process.
Terminated ==
    outcome.call = "name_lost_handler" /\ outcome.raised # NullPtr

\* IPCServer::name_lost_handler: on the system bus the connection is
\* closed, the session bus opened (session_ok: g_bus_get_sync gives a
\* connection) and every record registered again; on the session bus
\* std::terminate.
name_lost_handler(session_ok, transport_ok) ==
    LET o == [Outcome("name_lost_handler", "server", "", <<>>) EXCEPT
                !.before = Ptr(RegistryEntries(_nodes))]
        Opened(connection) ==
            /\ _connection' = connection
            /\ LET Registered(r) ==
                        /\ _nodes' = r.nodes
                        /\ exported' = r.exported
                        /\ next_registration_id' = r.next
               IN  Registered(Reregister(RegistryEntries(_nodes), 1, _nodes,
                                         {}, next_registration_id,
                                         connection, transport_ok))
    IN  /\ "server" \notin destroyed
        /\ reply = NoReply
        /\ IF _bus_type = "G_BUS_TYPE_SYSTEM"
           THEN /\ _bus_type' = "G_BUS_TYPE_SESSION"
                /\ Opened(IF session_ok
                          THEN g_bus_get_sync("G_BUS_TYPE_SESSION")
                          ELSE NullPtr)
                /\ outcome' = o
           ELSE /\ outcome' = Raised(o, Throw("terminate", "std::terminate"))
                /\ UNCHANGED <<_bus_type, _connection, _nodes, exported,
                               next_registration_id>>
        /\ UNCHANGED <<_properties, _server, _dpis, manager, reply, reg, writer,
                       destroyed>>

\* The daemon after IPCServer::IPCServer: on the system bus, or on the
\* session bus when the system bus could not be opened.
InitLifecycle ==
    /\ _properties = [i \in Interfaces |-> InitialProperties(i)]
    /\ _server = [i \in Interfaces |-> NullPtr]
    /\ _nodes = EmptyMap
    /\ exported = {}
    /\ next_registration_id = 1
    /\ _dpis = <<>>
    /\ NoManager
    /\ reply = NoReply
    /\ reg = Idle
    /\ writer = Idle
    /\ _bus_type \in {"G_BUS_TYPE_SYSTEM", "G_BUS_TYPE_SESSION"}
    /\ _connection = g_bus_get_sync(_bus_type)
    /\ destroyed = {}
    /\ outcome = NoOutcome

\* The signal names and argument lists the owners emit with.
SignalNames == {"sleep", "changed", "listed", "unknown"}

SignalArgs ==
    {<<>>,
     <<IPCVariant_num("uint8_t", 0)>>,
     <<IPCVariant_num("uint16_t", 400)>>,
     <<IPCVariant_num("uint8_t", 0), IPCVariant_num("uint8_t", 0)>>,
     <<IPCVariant_array(FeatureNames, TypeInfo(<<"a", "s">>))>>}

\* The property names and values the owners set.
OwnerProperties == {"level", "asleep", "unknown"}

OwnerValues ==
    {IPCVariant_num("uint8_t", 5), IPCVariant_num("bool", 1),
     IPCVariant_string(<<"x">>, "s")}

\* The call is over: the owner has its result, or has caught what the call
\* raised.  Nothing follows std::terminate.
returns ==
    /\ outcome # NoOutcome
    /\ ~Terminated
    /\ outcome' = NoOutcome
    /\ UNCHANGED <<_properties, _server, _nodes, exported,
                   next_registration_id, _dpis, manager, reply, reg, writer,
                   _bus_type, _connection, destroyed>>

NextLifecycle ==
    \/ /\ outcome = NoOutcome
       /\ "server" \notin destroyed
       /\ \E i \in Interfaces \ destroyed, transport_ok \in BOOLEAN :
            registerInterface(i, transport_ok)
    \/ /\ outcome = NoOutcome
       /\ "server" \notin destroyed
       /\ \E i \in Interfaces \ destroyed : unregisterInterface(i)
    \/ /\ outcome = NoOutcome
       /\ \E i \in Interfaces : IPCInterface_destroy(i)
    \/ /\ outcome = NoOutcome
       /\ \E visited \in 0..Len(RegistryOrder) : IPCServer_destroy(visited)
    \/ /\ outcome = NoOutcome
       /\ \E session_ok \in BOOLEAN, transport_ok \in BOOLEAN :
            name_lost_handler(session_ok, transport_ok)
    \/ /\ outcome = NoOutcome
       /\ \E i \in Interfaces \ destroyed, signal \in SignalNames,
             args \in SignalArgs, transport_ok \in BOOLEAN :
            emitSignal(i, signal, args, transport_ok)
    \/ /\ outcome = NoOutcome
       /\ \E i \in {"Device", "Collaborator"} \ destroyed,
             property \in OwnerProperties, value \in OwnerValues :
            callSetProperty(i, property, value)
    \/ /\ outcome = NoOutcome
       /\ "Device" \notin destroyed
       /\ \E asleep \in BOOLEAN, transport_ok \in BOOLEAN :
            Device_IPC_sleep(asleep, transport_ok)
    \/ returns

SpecLifecycle == InitLifecycle /\ [][NextLifecycle]_vars

(***************************************************************************)
(* Registration states, teardown and destruction                           *)
(***************************************************************************)
\* The registry holds a record for the interface's (node, name) that
\* references the interface, and the interface has a server.
RegisteredState(i) ==
    /\ Recorded(_nodes, i)
    /\ _nodes[Identity(i)._node][Identity(i)._name].interface = Ptr(i)
    /\ _server[i] # NullPtr

\* The registry holds no record for the pair and the interface has no
\* server.
UnregisteredState(i) == ~Recorded(_nodes, i) /\ _server[i] = NullPtr

\* C11: through every sequence of registerInterface, unregisterInterface
\* and teardown of the server, every (node, name) pair is Registered (a
\* record that references the interface, and the interface's _server set)
\* or Unregistered (no record, _server empty), never anything between.
RegisteredOrUnregistered ==
    \A i \in Interfaces : RegisteredState(i) \/ UnregisteredState(i)

\* C12: once the server is destroyed the registry is empty and no
\* interface that was registered still has its _server set, however many
\* nodes and interfaces the registry held.
TeardownUnregistersAll ==
    "server" \in destroyed =>
        /\ _nodes = EmptyMap
        /\ \A i \in Interfaces : _server[i] = NullPtr

\* C13: the registry holds no record that references a destroyed
\* interface, and none under a destroyed interface's (node, name).
NoRecordOfDestroyed ==
    \A i \in Interfaces \cap destroyed :
        /\ ~Recorded(_nodes, i)
        /\ \A j \in Interfaces :
              Recorded(_nodes, j) =>
                _nodes[Identity(j)._node][Identity(j)._name].interface
                    # Ptr(i)

\* The destructor of an interface that was registered with the living
\* server has run.
DestroyedWhileRegistered ==
    /\ outcome.call = "~IPCInterface"
    /\ outcome.before # NullPtr
    /\ outcome.undefined = NullPtr
    /\ outcome.interface \in destroyed

(***************************************************************************)
(* Reconnection and unregistration                                         *)
(***************************************************************************)
\* The registration ids the connection holds for the interface's (node,
\* name).
ExportedIds(i) ==
    {e.id : e \in {x \in exported : /\ x.node = Identity(i)._node
                                    /\ x.name = Identity(i)._name}}

\* C14: when the bus is lost and the fallback connection is established,
\* the registry holds the same (node, name) keys as before and every record
\* carries a registration id of the new connection, before the main loop
\* dispatches anything further.
ReconnectReregistersAll ==
    (/\ outcome.call = "name_lost_handler"
     /\ outcome.raised = NullPtr
     /\ _connection # NullPtr) =>
        /\ RegistryEntries(_nodes) = outcome.before.ptr
        /\ \A k \in 1..Len(outcome.before.ptr) :
              _nodes[Identity(outcome.before.ptr[k])._node]
                    [Identity(outcome.before.ptr[k])._name].registrationId
                  \in ExportedIds(outcome.before.ptr[k])

\* The record of a pair, NullPtr for a pair without one.
RecordOf(nodes, node, name) ==
    IF node \in DOMAIN nodes /\ name \in DOMAIN nodes[node]
    THEN Ptr(nodes[node][name])
    ELSE NullPtr

\* C15: IPCServer::unregisterInterface(node, name) for a pair without a
\* record and IPCInterface::unregisterInterface() on an interface without a
\* server change nothing; for an interface with a record exactly that
\* record goes, the connection gives up exactly that pair's object, and
\* every other record and registration stays.
UnregisterRemovesExactlyOne ==
    [][/\ \A node \in ObjectPaths, name \in InterfaceNames :
            RecordOf(_nodes, node, name) = NullPtr =>
                /\ ServerUnregister(_nodes, node, name) = _nodes
                /\ TransportUnregister(_nodes, node, name) = exported
       /\ \A i \in Interfaces :
            unregisterInterface(i) =>
                IF _server[i] = NullPtr
                THEN UNCHANGED vars
                ELSE /\ ~Recorded(_nodes', i)
                     /\ ExportedIds(i)' = {}
                     /\ _server'[i] = NullPtr
                     /\ \A j \in Interfaces \ {i} :
                          /\ RecordOf(_nodes', Identity(j)._node,
                                      Identity(j)._name)
                               = RecordOf(_nodes, Identity(j)._node,
                                          Identity(j)._name)
                          /\ ExportedIds(j)' = ExportedIds(j)
                          /\ _server'[j] = _server[j]]_vars

\* An interface was registered with the connection and unregistered again:
\* the registry and the connection hold nothing, and a further
\* unregisterInterface() finds no server.
UnregisteredAgain ==
    /\ destroyed = {}
    /\ outcome = NoOutcome
    /\ _bus_type = "G_BUS_TYPE_SYSTEM"
    /\ next_registration_id > 1
    /\ _nodes = EmptyMap
    /\ exported = {}
    /\ \A i \in Interfaces : _server[i] = NullPtr

(***************************************************************************)
(* setProperty and emitSignal as the owners call them                      *)
(***************************************************************************)
\* C16: IPCInterface::setProperty on an undeclared property fails as
\* UnknownProperty (std::invalid_argument of the property), on a value
\* whose type is not the declared one as InvalidType, both with every stored
\* property as it was; otherwise the stored value is replaced by the value
\* and nothing else changes.
SetPropertyContract ==
    outcome.call = "setProperty" =>
        IF outcome.member \notin DOMAIN outcome.before.ptr
        THEN /\ outcome.raised = Ptr(Throw("invalid_argument", "property"))
             /\ _properties[outcome.interface] = outcome.before.ptr
        ELSE IF typeSignature(outcome.before.ptr[outcome.member].type)
                    # typeSignature(type(outcome.args[1]))
        THEN /\ outcome.raised # NullPtr
             /\ outcome.raised.ptr.throws = "InvalidType"
             /\ _properties[outcome.interface] = outcome.before.ptr
        ELSE /\ outcome.raised = NullPtr
             /\ getProperty(outcome.interface, outcome.member)
                    = outcome.args[1]
             /\ \A p \in DOMAIN outcome.before.ptr \ {outcome.member} :
                    _properties[outcome.interface][p] = outcome.before.ptr[p]

\* emitSignal failed with std::invalid_argument(what) before anything was
\* handed to the server.
SignalRejected(what) ==
    /\ outcome.raised = Ptr(Throw("invalid_argument", what))
    /\ outcome.asked = 0
    /\ outcome.attempts = <<>>

UnboundEmitIsNoOp ==
    [][(outcome'.call = "emitSignal" /\ _server[outcome'.interface] = NullPtr)
        => /\ outcome'.raised = NullPtr
           /\ outcome'.asked = 0
           /\ outcome'.attempts = <<>>
           /\ outcome'.undefined = NullPtr
           /\ UNCHANGED <<_properties, _server, _nodes, exported,
                          next_registration_id, _dpis, manager, reply, reg, writer,
                          _bus_type, _connection, destroyed>>]_vars

\* An undeclared signal with arguments was emitted on an interface that
\* has no server.
UnboundEmitWitness ==
    /\ outcome.call = "emitSignal"
    /\ _server[outcome.interface] = NullPtr
    /\ outcome.member = "unknown"
    /\ outcome.args # <<>>
    /\ outcome.raised = NullPtr

\* C19: every call of IPCServer::emitSignal makes exactly one broadcast
\* attempt on the transport, under the interface's node and name, and
\* raises nothing but the broadcast failure of a rejected attempt.
OneBroadcastAttempt ==
    (/\ outcome.call = "emitSignal"
     /\ outcome.asked = 1
     /\ outcome.undefined = NullPtr) =>
        /\ Len(outcome.attempts) = 1
        /\ outcome.attempts[1].object_path = Identity(outcome.interface)._node
        /\ outcome.attempts[1].interface_name
                = Identity(outcome.interface)._name
        /\ outcome.attempts[1].signal_name = outcome.member
        /\ outcome.raised \in
                {NullPtr,
                 Ptr(Throw("runtime_error", "signal broadcast failed"))}

(***************************************************************************)
(* TypeInfo(std::string) over every short signature                        *)
(***************************************************************************)
\* The longest signature parsed.
MaxSignature == 5

\* The characters the signatures are written with: one single type, every
\* special character and one character outside VALID_CHARS.
SignatureChars == {"y", "a", "(", ")", "{", "}", "z"}

Signatures == UNION {[1..n -> SignatureChars] : n \in 1..MaxSignature}

\* A caller is about to construct TypeInfo(type_signature).
InitTypes ==
    /\ _properties = [i \in Interfaces |-> InitialProperties(i)]
    /\ _server = [i \in Interfaces |-> NullPtr]
    /\ _nodes = EmptyMap
    /\ exported = {}
    /\ next_registration_id = 1
    /\ _dpis = <<>>
    /\ NoManager
    /\ reply = NoReply
    /\ reg = Idle
    /\ writer = Idle
    /\ _bus_type = "G_BUS_TYPE_SYSTEM"
    /\ _connection = g_bus_get_sync("G_BUS_TYPE_SYSTEM")
    /\ destroyed = {}
    /\ outcome \in {Outcome("TypeInfo", "", "", type_signature) :
                        type_signature \in Signatures}

\* TypeInfo::TypeInfo(std::string type_signature): the object, or
\* InvalidType.
construct ==
    LET Built(t) ==
            outcome' = IF Threw(t) THEN Raised(outcome, t)
                       ELSE [outcome EXCEPT !.result = Ptr(t)]
    IN  /\ outcome.call = "TypeInfo"
        /\ outcome.result = NullPtr
        /\ outcome.raised = NullPtr
        /\ Built(TypeInfo(outcome.args))
        /\ UNCHANGED <<_properties, _server, _nodes, exported,
                       next_registration_id, _dpis, manager, reply, reg, writer,
                       _bus_type, _connection, destroyed>>

NextTypes == construct

SpecTypes == InitTypes /\ [][NextTypes]_vars

\* The longest valid signature parsed.
MaxValid == 8

\* The valid signatures of n characters over the single types y and s: a
\* single type, "a" and a valid signature, one or more valid signatures
\* between "(" and ")", a single-type key and a valid value between "{"
\* and "}".  ValidLists(n) are the sequences of one or more of them that
\* have n characters together.
RECURSIVE ValidSignatures(_)
RECURSIVE ValidLists(_)
ValidSignatures(n) ==
    IF n < 1 THEN {}
    ELSE IF n = 1 THEN {<<"y">>, <<"s">>}
    ELSE {<<"a">> \o t : t \in ValidSignatures(n - 1)}
         \cup {<<"(">> \o m \o <<")">> : m \in ValidLists(n - 2)}
         \cup {<<"{">> \o k \o v \o <<"}">> :
                    k \in ValidSignatures(1), v \in ValidSignatures(n - 3)}

ValidLists(n) ==
    IF n < 1 THEN {}
    ELSE ValidSignatures(n) \cup
         UNION {{h \o r : h \in ValidSignatures(j), r \in ValidLists(n - j)} :
                    j \in 1..(n - 1)}

\* A caller is about to construct TypeInfo(type_signature) of a valid
\* signature.
InitSignatures ==
    /\ _properties = [i \in Interfaces |-> InitialProperties(i)]
    /\ _server = [i \in Interfaces |-> NullPtr]
    /\ _nodes = EmptyMap
    /\ exported = {}
    /\ next_registration_id = 1
    /\ _dpis = <<>>
    /\ NoManager
    /\ reply = NoReply
    /\ reg = Idle
    /\ writer = Idle
    /\ _bus_type = "G_BUS_TYPE_SYSTEM"
    /\ _connection = g_bus_get_sync("G_BUS_TYPE_SYSTEM")
    /\ destroyed = {}
    /\ outcome \in {Outcome("TypeInfo", "", "", type_signature) :
                        type_signature \in
                            UNION {ValidSignatures(n) : n \in 1..MaxValid}}

SpecSignatures == InitSignatures /\ [][NextTypes]_vars

\* C20: no TypeInfo of a Dict is built with a key that is not a single
\* type: a signature "{KV}" whose K is an Array, a Struct or a Dict is
\* refused with InvalidType.
DictKeyPrimitive ==
    (/\ outcome.call = "TypeInfo"
     /\ outcome.result # NullPtr
     /\ primaryType(outcome.result.ptr) = "{") =>
        primaryType(outcome.result.ptr._dict_key) \in SINGLE_TYPES

\* C21: a TypeInfo of a Dict is built only from "{" K V "}" with exactly
\* one key and one complete value sub-signature between the braces: with
\* no value, or with further characters after the value ("{sii}"), the
\* constructor fails with InvalidType.
DictArity ==
    (/\ outcome.call = "TypeInfo"
     /\ outcome.result # NullPtr
     /\ primaryType(outcome.result.ptr) = "{") =>
        outcome.args = <<"{">>
                        \o typeSignature(outcome.result.ptr._dict_key)
                        \o typeSignature(outcome.result.ptr._dict_value)
                        \o <<"}">>

\* C22: no TypeInfo is built from a signature with an empty Struct "()",
\* at the top ("()") or nested ("a()", "(y())"): a Struct holds at least
\* one complete sub-signature.
StructNonEmpty ==
    (/\ outcome.call = "TypeInfo"
     /\ outcome.result # NullPtr) =>
        /\ primaryType(outcome.result.ptr) = "(" =>
                Len(outcome.result.ptr._struct_types) >= 1
        /\ \A k \in 1..(Len(outcome.args) - 1) :
                ~(outcome.args[k] = "(" /\ outcome.args[k + 1] = ")")

\* The position after the one complete signature that starts at s[i], or 0
\* when none starts there: a single type, "a" and a complete signature, or
\* complete signatures between matching "(" ")" or "{" "}".
RECURSIVE EndOf(_, _)
RECURSIVE Members(_, _, _)
EndOf(s, i) ==
    IF i > Len(s) THEN 0
    ELSE IF s[i] \in SINGLE_TYPES THEN i + 1
    ELSE IF s[i] = "a" THEN EndOf(s, i + 1)
    ELSE IF s[i] = "(" THEN Members(s, i + 1, ")")
    ELSE IF s[i] = "{" THEN Members(s, i + 1, "}")
    ELSE 0

Members(s, i, close) ==
    IF i > Len(s) THEN 0
    ELSE IF s[i] = close THEN i + 1
    ELSE LET After(e) == IF e = 0 THEN 0 ELSE Members(s, e, close)
         IN  After(EndOf(s, i))

\* C23: a TypeInfo is built only from a string that is one complete
\* signature: its brackets nest, every character is of the alphabet, a
\* single type is followed by nothing and "a" by exactly one complete
\* signature; every other string fails with InvalidType.
MalformedRejected ==
    (/\ outcome.call = "TypeInfo"
     /\ outcome.result # NullPtr) =>
        EndOf(outcome.args, 1) = Len(outcome.args) + 1

\* Every failure of the constructor is an InvalidType: no assertion of
\* getSpecialEnd is reached.
ParserRaisesInvalidType ==
    (outcome.call = "TypeInfo" /\ outcome.raised # NullPtr) =>
        outcome.raised.ptr.throws = "InvalidType"

(***************************************************************************)
(* Variants: construction, comparison, conversion, assignment, element     *)
(* access and translation to and from the wire                             *)
(***************************************************************************)
MaxEntries == 2

\* The argument types of the NUM_DATA constructors.
CTypes ==
    {"int16_t", "uint16_t", "int32_t", "uint32_t", "int64_t", "uint64_t",
     "double", "uint8_t", "bool"}

\* NUM_TYPE_OVERLOAD(x, t), and the overloads written out for int32_t and
\* bool: the TypeInfo::Type the operators of C++ type x ask for.
NUM_TYPE_OVERLOAD(x) ==
    CASE x = "int16_t" -> "n"
      [] x = "uint16_t" -> "q"
      [] x = "int32_t" -> "i"
      [] x = "uint32_t" -> "u"
      [] x = "int64_t" -> "x"
      [] x = "uint64_t" -> "t"
      [] x = "double" -> "d"
      [] x = "uint8_t" -> "y"
      [] x = "bool" -> "b"

\* The conversion operators of IPCVariant, by the type they convert to.
ConversionTypes ==
    CTypes \cup {"std::string", "std::vector<IPCVariant>", "IPCVariantDict"}

\* operator x() const: [value |-> the payload] or InvalidType.
operator_x(v, x) ==
    CASE x = "bool" -> [value |-> as_bool(v)]
      [] x = "std::string" -> as_string(v)
      [] x = "std::vector<IPCVariant>" -> as_vector(v)
      [] x = "IPCVariantDict" -> as_dict(v)
      [] OTHER -> as_num(v, NUM_TYPE_OVERLOAD(x))

\* The constructor calls of the model, [args, object]: every NUM_DATA
\* constructor on 0 and 1, strings and object paths, vectors of at most
\* MaxEntries elements under an Array or Struct type, and the maps that
\* operator[] builds from well-typed keys and values under the type {su}.
\* A call that throws constructs nothing.
Numbers ==
    {[args |-> <<x, data>>, object |-> IPCVariant_num(x, data)] :
        x \in CTypes, data \in 0..1}

Strings ==
    {[args |-> <<"std::string", data, t>>,
      object |-> IPCVariant_string(data, t)] :
        data \in {<<"a">>, <<"b">>}, t \in {"s", "o"}}

Elements ==
    {IPCVariant_num("uint8_t", 0), IPCVariant_num("uint8_t", 1),
     IPCVariant_string(<<"a">>, "s"),
     IPCVariant_array(<<IPCVariant_num("uint8_t", 0)>>,
                      TypeInfo(<<"(", "y", ")">>)),
     IPCVariant_array(<<IPCVariant_num("uint8_t", 0),
                        IPCVariant_num("uint8_t", 1)>>,
                      TypeInfo(<<"(", "y", "y", ")">>))}

Vectors == UNION {[1..n -> Elements] : n \in 0..MaxEntries}

VectorTypes ==
    {TypeInfo(<<"a", "y">>), TypeInfo(<<"(", "y", "y", ")">>),
     TypeInfo(<<"a", "(", "y", ")">>), TypeInfo(<<"a", "(", "y", "y", ")">>)}

Keys == {IPCVariant_string(<<"a">>, "s"), IPCVariant_string(<<"b">>, "s")}

Values == {IPCVariant_num("uint32_t", 0), IPCVariant_num("uint32_t", 1)}

RECURSIVE DictsOf(_)
DictsOf(n) ==
    IF n = 0 THEN {<<>>}
    ELSE DictsOf(n - 1) \cup
         {DictSubscriptAssign(dict, key, value).dict :
            dict \in DictsOf(n - 1), key \in Keys, value \in Values}

Dicts == DictsOf(MaxEntries)

Composites ==
    {c \in {[args |-> <<"std::vector<IPCVariant>", array, t>>,
             object |-> IPCVariant_array(array, t)] :
                array \in Vectors, t \in VectorTypes} \cup
           {[args |-> <<"IPCVariantDict", dict,
                        TypeInfo(<<"{", "s", "u", "}">>)>>,
             object |-> IPCVariant_dict(dict,
                                        TypeInfo(<<"{", "s", "u", "}">>))] :
                dict \in Dicts} :
        ~Threw(c.object)}

Constructions == Numbers \cup Strings \cup Composites

Variants == {c.object : c \in Constructions}

\* The values that arrive from the bus: arrays of (string, uint32) tuples
\* of at most MaxEntries tuples, and an int32.
WireTuples ==
    {NewTuple(<<String(key), Scalar("u", n)>>) :
        key \in {<<"a">>, <<"b">>}, n \in 0..1}

Wires ==
    {MkGVariant(<<"a", "(", "s", "u", ")">>, 0, <<>>, tuples) :
        tuples \in UNION {[1..n -> WireTuples] : n \in 0..MaxEntries}}
    \cup {Scalar("i", 1)}

\* A Variant was constructed and nothing was done with it yet.
InitVariants ==
    /\ _properties = [i \in Interfaces |-> InitialProperties(i)]
    /\ _server = [i \in Interfaces |-> NullPtr]
    /\ _nodes = EmptyMap
    /\ exported = {}
    /\ next_registration_id = 1
    /\ _dpis = <<>>
    /\ NoManager
    /\ reply = NoReply
    /\ reg = Idle
    /\ writer = Idle
    /\ _bus_type = "G_BUS_TYPE_SYSTEM"
    /\ _connection = g_bus_get_sync("G_BUS_TYPE_SYSTEM")
    /\ destroyed = {}
    /\ outcome \in {[Outcome("IPCVariant", "", "IPCVariant", c.args)
                        EXCEPT !.before = Ptr(c.object)] :
                    c \in Constructions}

\* The Variant the operations act on.
this == outcome.before.ptr

\* The caller is between two statements: after the constructor, or after
\* the result of the last operation was dropped.
Resting ==
    /\ outcome.call = "IPCVariant"
    /\ outcome.member \in {"IPCVariant", ""}

\* An operation `member` ran with `args` on the Variant, left it as
\* `object` and returned or threw r.  The record keeps the arguments after
\* the name of the operation.
Ran(member, args, object, r) ==
    /\ outcome' = [outcome EXCEPT !.member = member,
                                  !.args = <<member>> \o args,
                                  !.before = Ptr(object),
                                  !.result = IF Threw(r) THEN NullPtr
                                             ELSE Ptr(r),
                                  !.raised = IF Threw(r) THEN Ptr(r)
                                             ELSE NullPtr]
    /\ UNCHANGED <<_properties, _server, _nodes, exported,
                   next_registration_id, _dpis, manager, reply, reg, writer,
                   _bus_type, _connection, destroyed>>

\* An assignment operator ran: the Variant is r unless r was thrown.
Assigned(member, args, r) ==
    Ran(member, args, IF Threw(r) THEN this ELSE r, r)

\* *this == other
equals(other) ==
    /\ Resting
    /\ Ran("operator==", <<other>>, this, VariantEq(this, other))

\* (x)*this
converts(x) ==
    /\ Resting
    /\ Ran(x, <<>>, this, operator_x(this, x))

\* A typed assignment that stores what it was given before the first
\* child that does not fit, and throws.
assignsVectorPrefix(other) ==
    LET Fit(i) ==
            IF primaryType(type(this)) = "a"
            THEN TypeEq(type(other[i]), arrayType(type(this)))
            ELSE /\ primaryType(type(this)) = "("
                 /\ i <= Len(structFormat(type(this)).types)
                 /\ TypeEq(type(other[i]), structFormat(type(this)).types[i])
        Prefix == {n \in 0..Len(other) : \A i \in 1..n : Fit(i)}
        Longest == CHOOSE n \in Prefix : \A m \in Prefix : m <= n
    IN  /\ Resting
        /\ IF /\ primaryType(type(this)) \in {"a", "("}
              /\ Longest = Len(other)
              /\ primaryType(type(this)) = "(" =>
                    Len(other) = Len(structFormat(type(this)).types)
           THEN Ran("operator=(vector)", <<other>>,
                    [this EXCEPT !._array = other],
                    [this EXCEPT !._array = other])
           ELSE Ran("operator=(vector)", <<other>>,
                    IF primaryType(type(this)) \in {"a", "("}
                    THEN [this EXCEPT !._array = SubSeq(other, 1, Longest)]
                    ELSE this,
                    InvalidType)

\* IPCVariant::operator=(const std::vector<IPCVariant>&)
assignsVector(other) ==
    /\ Resting
    /\ Assigned("operator=(vector)", <<other>>,
         IF primaryType(type(this)) = "a"
         THEN IF \E i \in 1..Len(other) :
                    TypeNe(type(other[i]), arrayType(type(this)))
              THEN InvalidType
              ELSE [this EXCEPT !._array = other]
         ELSE IF primaryType(type(this)) = "("
         THEN IF Len(other) # Len(structFormat(type(this)).types)
              THEN InvalidType
              ELSE IF \E i \in 1..Len(other) :
                        TypeNe(type(other[i]),
                               structFormat(type(this)).types[i])
                   THEN InvalidType
                   ELSE [this EXCEPT !._array = other]
         ELSE InvalidType)

\* IPCVariant::operator=(const IPCVariantDict&)
assignsDict(other) ==
    /\ Resting
    /\ Assigned("operator=(dict)", <<other>>,
         IF primaryType(type(this)) # "{"
         THEN InvalidType
         ELSE IF \E i \in 1..Len(other) :
                    \/ TypeNe(type(other[i].first), dictType(type(this)).first)
                    \/ TypeNe(type(other[i].second),
                              dictType(type(this)).second)
              THEN InvalidType
              ELSE [this EXCEPT !._dict = other])

\* IPCVariant::operator=(const IPCVariant&)
assigns(other) ==
    /\ Resting
    /\ Assigned("operator=", <<other>>, VariantAssign(this, other))

\* (*this)[index] = other: the non-const operator[](std::size_t) hands out
\* a reference to the element, and operator=(const IPCVariant&) on it copies
\* every field of other.  An index past the end fails the assertion.
assignsElement(index, other) ==
    /\ Resting
    /\ Assigned("operator[](index)", <<index, other>>,
         IF primaryType(type(this)) \notin {"a", "("}
         THEN InvalidType
         ELSE IF ~(index < Len(this._array))
         THEN Throw("assert", "index < _array.size()")
         ELSE [this EXCEPT !._array[index + 1] =
                                VariantAssign(this._array[index + 1], other)])

\* (*this)[key] = value: the non-const operator[](IPCVariant&) returns
\* _dict[key], whatever the type of key, and the assignment copies value.
assignsEntry(key, value) ==
    LET Kept(d) == IF Threw(d) THEN d ELSE [this EXCEPT !._dict = d.dict]
    IN  /\ Resting
        /\ Len(this._dict) < MaxEntries
        /\ Assigned("operator[](key)", <<key, value>>,
             IF primaryType(type(this)) # "{"
             THEN InvalidType
             ELSE Kept(DictSubscriptAssign(this._dict, key, value)))

\* toGVariant(*this).  g_variant_new_array reads every slot of garray: one
\* that was never written makes the behaviour undefined.
toWire ==
    LET Sent(g) ==
            /\ Ran("toGVariant", <<>>, this, g)
            /\ outcome'.undefined =
                    IF ~Threw(g) /\ \E i \in 1..Len(g.children) :
                                        g.children[i] = Uninitialized
                    THEN Ptr("uninitialized GVariant* read")
                    ELSE NullPtr
    IN  /\ Resting
        /\ Sent(toGVariant(this))

\* translateGVariant of the GVariant that toGVariant(*this) returned.
fromWire ==
    /\ outcome.call = "IPCVariant"
    /\ outcome.member = "toGVariant"
    /\ outcome.result # NullPtr
    /\ outcome.undefined = NullPtr
    /\ Ran("translateGVariant", <<outcome.result.ptr>>, this,
           translateGVariant(outcome.result.ptr))

\* translateGVariant of a value that arrived from the bus.
inbound(variant) ==
    /\ Resting
    /\ Ran("translateGVariant", <<variant>>, this, translateGVariant(variant))

\* The types a caller declares for a vector or a map: the types of the
\* model's composites, a scalar type, and the other composite kind.
DeclaredTypes ==
    VectorTypes \cup {TypeInfo(<<"{", "s", "u", "}">>),
                      TypeInfo(<<"{", "s", "y", "}">>), TypeInfo_Type("y")}

\* The maps a caller can hand to the constructor: those operator[] builds
\* from keys and values of either type.
RECURSIVE MapsOf(_)
MapsOf(n) ==
    IF n = 0 THEN {<<>>}
    ELSE MapsOf(n - 1) \cup
         {DictSubscriptAssign(dict, key, value).dict :
            dict \in MapsOf(n - 1),
            key \in Keys \cup {IPCVariant_num("uint8_t", 1)},
            value \in Values \cup {IPCVariant_string(<<"a">>, "s")}}

Maps == MapsOf(MaxEntries)

\* A constructor ran where the caller had no Variant: the caller has the
\* Variant r, or none when the constructor threw r.
Constructed(member, args, r) ==
    /\ Resting
    /\ outcome.before = NullPtr
    /\ outcome' = [outcome EXCEPT !.member = member,
                                  !.args = <<member>> \o args,
                                  !.before = IF Threw(r) THEN NullPtr
                                             ELSE Ptr(r),
                                  !.result = IF Threw(r) THEN NullPtr
                                             ELSE Ptr(r),
                                  !.raised = IF Threw(r) THEN Ptr(r)
                                             ELSE NullPtr]
    /\ UNCHANGED <<_properties, _server, _nodes, exported,
                   next_registration_id, _dpis, manager, reply, reg, writer,
                   _bus_type, _connection, destroyed>>

\* IPCVariant(x data) and IPCVariant(std::string data, TypeInfo::Type t)
constructs(c) == Constructed("IPCVariant(scalar)", c.args, c.object)

\* IPCVariant(array, t)
constructsVector(array, t) ==
    Constructed("IPCVariant(vector)", <<array, t>>, IPCVariant_array(array, t))

\* IPCVariant(dict, t)
constructsDict(dict, t) ==
    Constructed("IPCVariant(dict)", <<dict, t>>, IPCVariant_dict(dict, t))

\* TYPE_OVERLOAD operator=(const x& other) of a numeric type x
assignsNumber(x, data) ==
    /\ Resting
    /\ Assigned("operator=(number)", <<x, data>>,
         IF primaryType(type(this)) # NUM_TYPE_OVERLOAD(x)
         THEN InvalidType
         ELSE [this EXCEPT !._num_data = data])

\* TYPE_OVERLOAD operator=(const std::string& other)
assignsString(data) ==
    /\ Resting
    /\ Assigned("operator=(string)", <<data>>,
         IF primaryType(type(this)) \notin StringTypes
         THEN InvalidType
         ELSE [this EXCEPT !._string_data = data])

\* The result of the last operation goes out of scope.
drops ==
    /\ outcome.call = "IPCVariant"
    /\ outcome.member \notin {"IPCVariant", ""}
    /\ outcome' = [Outcome("IPCVariant", "", "", <<>>)
                      EXCEPT !.before = outcome.before]
    /\ UNCHANGED <<_properties, _server, _nodes, exported,
                   next_registration_id, _dpis, manager, reply, reg, writer,
                   _bus_type, _connection, destroyed>>

NextVariants ==
    \/ \E other \in Variants : equals(other)
    \/ \E x \in ConversionTypes : converts(x)
    \/ \E other \in Vectors : assignsVector(other)
    \/ \E other \in Dicts : assignsDict(other)
    \/ \E other \in Variants : assigns(other)
    \/ \E index \in 0..(MaxEntries - 1), other \in Elements :
            assignsElement(index, other)
    \/ \E key \in Keys \cup {IPCVariant_num("uint8_t", 1)},
          value \in Values \cup {IPCVariant_string(<<"a">>, "s")} :
            assignsEntry(key, value)
    \/ toWire
    \/ fromWire
    \/ \E variant \in Wires : inbound(variant)
    \/ drops

SpecVariants == InitVariants /\ [][NextVariants]_vars

\* The caller of the typed operations: it has no Variant, constructs one
\* and assigns to it.
InitTyped ==
    /\ _properties = [i \in Interfaces |-> InitialProperties(i)]
    /\ _server = [i \in Interfaces |-> NullPtr]
    /\ _nodes = EmptyMap
    /\ exported = {}
    /\ next_registration_id = 1
    /\ _dpis = <<>>
    /\ NoManager
    /\ reply = NoReply
    /\ reg = Idle
    /\ writer = Idle
    /\ _bus_type = "G_BUS_TYPE_SYSTEM"
    /\ _connection = g_bus_get_sync("G_BUS_TYPE_SYSTEM")
    /\ destroyed = {}
    /\ outcome = Outcome("IPCVariant", "", "", <<>>)

NextTyped ==
    \/ \E c \in Numbers \cup Strings : constructs(c)
    \/ \E array \in Vectors, t \in DeclaredTypes : constructsVector(array, t)
    \/ \E dict \in Maps, t \in DeclaredTypes : constructsDict(dict, t)
    \/ /\ outcome.before # NullPtr
       /\ \/ \E x \in CTypes, data \in 0..1 : assignsNumber(x, data)
          \/ \E data \in {<<"a">>, <<"b">>} : assignsString(data)
          \/ \E other \in Vectors : assignsVector(other)
          \/ \E other \in Maps : assignsDict(other)
    \/ drops

SpecTyped == InitTyped /\ [][NextTyped]_vars

\* A Variant whose children have the types its own type declares, at
\* every depth.
RECURSIVE Valid(_)
Valid(v) ==
    CASE primaryType(type(v)) = "a" ->
            \A i \in 1..Len(v._array) :
                /\ TypeEq(type(v._array[i]), type(v)._array_type)
                /\ Valid(v._array[i])
      [] primaryType(type(v)) = "(" ->
            /\ Len(v._array) = Len(type(v)._struct_types)
            /\ \A i \in 1..Len(v._array) :
                /\ TypeEq(type(v._array[i]), type(v)._struct_types[i])
                /\ Valid(v._array[i])
      [] primaryType(type(v)) = "{" ->
            \A i \in 1..Len(v._dict) :
                /\ TypeEq(type(v._dict[i].first), type(v)._dict_key)
                /\ TypeEq(type(v._dict[i].second), type(v)._dict_value)
                /\ Valid(v._dict[i].first)
                /\ Valid(v._dict[i].second)
      [] OTHER -> TRUE

\* C24: v == v is true for a Variant of every kind, Array, Struct and Dict
\* included, and v1 == v2 is false, with no error raised, for two Variants
\* of different TypeSignatures.
EqualsReflexive ==
    (/\ outcome.call = "IPCVariant"
     /\ outcome.member = "operator=="
     /\ Valid(this)) =>
        /\ outcome.args[2] = this =>
                /\ outcome.raised = NullPtr
                /\ outcome.result = Ptr([value |-> TRUE])
        /\ TypeNe(type(this), type(outcome.args[2])) =>
                /\ outcome.raised = NullPtr
                /\ outcome.result = Ptr([value |-> FALSE])

\* C25: a Variant constructed from a value of a scalar C++ type has the
\* kind of that type, and the conversion to that type returns the value it
\* was constructed with.
NaturalKind ==
    [][(/\ outcome.call = "IPCVariant"
        /\ outcome.member = "IPCVariant"
        /\ outcome.args[1] \in CTypes) =>
            /\ primaryType(type(this)) = NUM_TYPE_OVERLOAD(outcome.args[1])
            /\ outcome'.member = outcome.args[1] =>
                /\ outcome'.raised = NullPtr
                /\ outcome'.result =
                     Ptr([value |-> IF outcome.args[1] = "bool"
                                    THEN outcome.args[2] # 0
                                    ELSE outcome.args[2]])]_vars

\* The kind of the Variant is one the conversion to x is for.
Requested(v, x) ==
    CASE x = "std::string" -> primaryType(type(v)) \in StringTypes
      [] x = "std::vector<IPCVariant>" -> primaryType(type(v)) \in {"a", "("}
      [] x = "IPCVariantDict" -> primaryType(type(v)) = "{"
      [] OTHER -> primaryType(type(v)) = NUM_TYPE_OVERLOAD(x)

\* C26: a conversion returns the stored payload when the Variant is of the
\* kind the conversion is for, and fails with InvalidType, returning
\* nothing, when it is of another kind.
ConversionChecked ==
    (/\ outcome.call = "IPCVariant"
     /\ outcome.member \in ConversionTypes
     /\ Valid(this)) =>
        IF Requested(this, outcome.member)
        THEN /\ outcome.raised = NullPtr
             /\ outcome.result.ptr.value =
                    CASE outcome.member = "bool" -> this._num_data # 0
                      [] outcome.member = "std::string" -> this._string_data
                      [] outcome.member = "std::vector<IPCVariant>" ->
                            this._array
                      [] outcome.member = "IPCVariantDict" -> this._dict
                      [] OTHER -> this._num_data
        ELSE /\ outcome.result = NullPtr
             /\ outcome.raised = Ptr(InvalidType)

\* C27: after every sequence of constructions, assignments and element
\* accesses the children of the Variant have the types its type declares.
ChildrenMatch == outcome.call = "IPCVariant" => Valid(this)

\* C28: toGVariant of a valid Variant returns a value, and translateGVariant
\* of that value returns a Variant equal to the one that was sent.
RoundTrip ==
    /\ (/\ outcome.call = "IPCVariant"
        /\ outcome.member = "toGVariant"
        /\ Valid(this)) =>
            /\ outcome.raised = NullPtr
            /\ outcome.undefined = NullPtr
    /\ (/\ outcome.call = "IPCVariant"
        /\ outcome.member = "translateGVariant"
        /\ Valid(this)
        /\ outcome.args[2] = toGVariant(this)) =>
            /\ outcome.raised = NullPtr
            /\ outcome.result = Ptr(this)

\* C29: toGVariant raises nothing for a valid Array, Struct or Dict, and
\* for a Dict of n entries it returns an array of n tuples, the i-th the
\* (key, value) tuple of the i-th entry.
CompositeToWire ==
    (/\ outcome.call = "IPCVariant"
     /\ outcome.member = "toGVariant"
     /\ Valid(this)
     /\ primaryType(type(this)) \in {"a", "(", "{"}) =>
        /\ outcome.raised = NullPtr
        /\ outcome.undefined = NullPtr
        /\ primaryType(type(this)) = "{" =>
            /\ Len(outcome.result.ptr.children) = Len(this._dict)
            /\ \A i \in 1..Len(this._dict) :
                    outcome.result.ptr.children[i] =
                        NewTuple(<<toGVariant(this._dict[i].first),
                                   toGVariant(this._dict[i].second)>>)

\* C30: translateGVariant of an array "a(KV)" of two-element tuples (KV)
\* returns a Variant of the Dict type "{KV}", and the entries of the Dict
\* are the (key, value) pairs of the tuples.
InboundDict ==
    (/\ outcome.call = "IPCVariant"
     /\ outcome.member = "translateGVariant"
     /\ Len(outcome.args[2].gtype) >= 2
     /\ outcome.args[2].gtype[1] = "a"
     /\ outcome.args[2].gtype[2] = "("
     /\ \A i \in 1..Len(outcome.args[2].children) :
            /\ Len(outcome.args[2].children[i].children) = 2
            /\ outcome.args[2].children[i].gtype =
                    SubSeq(outcome.args[2].gtype, 2,
                           Len(outcome.args[2].gtype))) =>
        /\ outcome.raised = NullPtr
        /\ typeSignature(type(outcome.result.ptr)) =
                <<"{">> \o SubSeq(outcome.args[2].gtype, 3,
                                  Len(outcome.args[2].gtype) - 1) \o <<"}">>
        /\ {outcome.result.ptr._dict[i] :
                i \in 1..Len(outcome.result.ptr._dict)} =
           {[first |-> translateGVariant(
                            outcome.args[2].children[i].children[1]),
             second |-> translateGVariant(
                            outcome.args[2].children[i].children[2])] :
                i \in 1..Len(outcome.args[2].children)}


\* The children of a sequence fit the type t: each element of an Array has
\* the element type, a Struct has as many children as slots and each child
\* the type of its slot.
FitsSequence(t, array) ==
    \/ /\ t._type = "a"
       /\ \A i \in 1..Len(array) :
            array[i]._type._type_signature = t._array_type._type_signature
    \/ /\ t._type = "("
       /\ Len(array) = Len(t._struct_types)
       /\ \A i \in 1..Len(array) :
            array[i]._type._type_signature = t._struct_types[i]._type_signature

\* The entries of a map fit the type t: a Dict type whose key and value
\* types are the types of every key and value.
FitsMap(t, dict) ==
    /\ t._type = "{"
    /\ \A i \in 1..Len(dict) :
        /\ dict[i].first._type._type_signature = t._dict_key._type_signature
        /\ dict[i].second._type._type_signature =
                t._dict_value._type_signature

\* C31: constructing an Array, Struct or Dict Variant validates every
\* child against the declared type: when a child's type, the number of
\* Struct children, or a key's or value's type does not match, the
\* constructor fails with InvalidType and no Variant is constructed.
ConstructorValidates ==
    /\ (/\ outcome.call = "IPCVariant"
        /\ outcome.member = "IPCVariant(vector)"
        /\ ~FitsSequence(outcome.args[3], outcome.args[2])) =>
            /\ outcome.raised = Ptr(InvalidType)
            /\ outcome.result = NullPtr
    /\ (/\ outcome.call = "IPCVariant"
        /\ outcome.member = "IPCVariant(dict)"
        /\ ~FitsMap(outcome.args[3], outcome.args[2])) =>
            /\ outcome.raised = Ptr(InvalidType)
            /\ outcome.result = NullPtr

\* The constructor refused an Array of two children whose first child has
\* the element type and whose second has not.
ConstructorRefusedSecondChild ==
    /\ outcome.call = "IPCVariant"
    /\ outcome.member = "IPCVariant(vector)"
    /\ outcome.args[3]._type = "a"
    /\ Len(outcome.args[2]) = 2
    /\ outcome.args[2][1]._type._type_signature =
            outcome.args[3]._array_type._type_signature
    /\ outcome.args[2][2]._type._type_signature #
            outcome.args[3]._array_type._type_signature
    /\ outcome.raised = Ptr(InvalidType)
    /\ outcome.result = NullPtr

\* The value of a typed assignment fits the Variant v it is assigned to.
FitsAssignment(v, member, args) ==
    CASE member = "operator=(number)" ->
            v._type._type = NUM_TYPE_OVERLOAD(args[2])
      [] member = "operator=(string)" -> v._type._type \in {"s", "g", "o"}
      [] member = "operator=(vector)" -> FitsSequence(v._type, args[2])
      [] member = "operator=(dict)" -> FitsMap(v._type, args[2])

\* C32: a typed assignment (scalar, string, sequence, mapping) whose value
\* does not fit the Variant's TypeSignature fails with InvalidType and
\* leaves the Variant's type and payload unchanged; a sequence assignment
\* with one mismatching child stores none of the children.
TypedAssignmentFrame ==
    [][(/\ outcome'.call = "IPCVariant"
        /\ outcome'.member \in {"operator=(number)", "operator=(string)",
                                "operator=(vector)", "operator=(dict)"}
        /\ ~FitsAssignment(this, outcome'.member, outcome'.args)) =>
            /\ outcome'.raised = Ptr(InvalidType)
            /\ outcome'.before = outcome.before]_vars

\* A sequence assignment to an Array was refused for its second child
\* alone, and the Variant holds none of the two children.
AssignmentRefusedSecondChild ==
    /\ outcome.call = "IPCVariant"
    /\ outcome.member = "operator=(vector)"
    /\ this._type._type = "a"
    /\ Len(outcome.args[2]) = 2
    /\ outcome.args[2][1]._type._type_signature =
            this._type._array_type._type_signature
    /\ outcome.args[2][2]._type._type_signature #
            this._type._array_type._type_signature
    /\ outcome.raised = Ptr(InvalidType)
    /\ this._array = <<>>


\* The number of places of the string `node` where `root` begins.
Occurrences(root, node) ==
    Cardinality({k \in 0..(Len(node) - Len(root)) :
                    SubSeq(node, k + 1, k + Len(root)) = root})

\* C33: the node of every Interface the program constructs is the root
\* followed by '/<logical-id>', so the root occurs in it once, at its
\* start; its name is the prefix followed by '.<logical-id>'; and the node
\* of a per-device feature Interface is its Device's node followed by
\* '/<feature>'.
NodesUnderRoot ==
    \A node \in DOMAIN _nodes : \A name \in DOMAIN _nodes[node] :
        /\ SubSeq(node, 1, Len(LOGID_DBUS_OBJECTMANAGER_NODE) + 1) =
                LOGID_DBUS_OBJECTMANAGER_NODE \o "/"
        /\ Occurrences(LOGID_DBUS_OBJECTMANAGER_NODE, node) = 1
        /\ SubSeq(name, 1, Len(LOGID_DBUS_NAME) + 1) = LOGID_DBUS_NAME \o "."
        /\ _nodes[node][name].interface = Ptr("DPI") =>
                node = LOGID_DBUS_OBJECTMANAGER_NODE \o "/device/0" \o "/dpi"


\* The signatures of the TypeInfos of a sequence, one after the other.
RECURSIVE Concatenated(_)
Concatenated(types) ==
    IF types = <<>> THEN <<>>
    ELSE types[1]._type_signature \o Concatenated(Tail(types))

\* The signature a TypeInfo stores is written with the signatures its
\* parts store, at every depth: each part's signature is the part of the
\* string it was parsed from.
RECURSIVE Exact(_)
Exact(t) ==
    CASE t._type = "a" ->
            /\ t._type_signature = <<"a">> \o t._array_type._type_signature
            /\ Exact(t._array_type)
      [] t._type = "(" ->
            /\ t._type_signature =
                    <<"(">> \o Concatenated(t._struct_types) \o <<")">>
            /\ \A i \in 1..Len(t._struct_types) : Exact(t._struct_types[i])
      [] t._type = "{" ->
            /\ t._type_signature =
                    <<"{">> \o t._dict_key._type_signature
                           \o t._dict_value._type_signature \o <<"}">>
            /\ Exact(t._dict_key)
            /\ Exact(t._dict_value)
      [] OTHER -> t._type_signature = <<t._type>>

\* C34: for every valid signature s the TypeInfo parsed from s has the
\* type signature s, and every sub-signature it stores (an Array's element
\* type, a Struct's slots, a Dict's key and value) is the exact part of s
\* it was parsed from.
SignatureRoundTrip ==
    (/\ outcome.call = "TypeInfo"
     /\ (outcome.result # NullPtr \/ outcome.raised # NullPtr)) =>
        /\ outcome.raised = NullPtr
        /\ outcome.result # NullPtr
        /\ typeSignature(outcome.result.ptr) = outcome.args
        /\ Exact(outcome.result.ptr)

\* A Struct was parsed whose slots are an Array of Structs and a single
\* type.
NestedStructParsed ==
    /\ outcome.call = "TypeInfo"
    /\ outcome.result # NullPtr
    /\ outcome.args = <<"(", "a", "(", "y", ")", "s", ")">>
    /\ Len(outcome.result.ptr._struct_types) = 2
    /\ outcome.result.ptr._struct_types[1]._type_signature =
            <<"a", "(", "y", ")">>


\* C40: for every input string, every call of getSpecialEnd satisfies its
\* two assertions (start < length - 1, and the character at start is 'a',
\* '(' or '{'), and neither the parser nor getSpecialEnd reads a character
\* outside the string: the constructor returns a TypeInfo or raises
\* InvalidType, and nothing else.
ParserSafe ==
    (/\ outcome.call = "TypeInfo"
     /\ outcome.result = NullPtr) =>
        \/ outcome.raised = NullPtr
        \/ /\ outcome.raised.ptr.throws \notin {"assert", "undefined"}
           /\ outcome.raised.ptr = InvalidType

\* The scan of getSpecialEnd ran to the end of a string whose inner Struct
\* is not closed, and the constructor raised InvalidType.
UnclosedScanned ==
    /\ outcome.call = "TypeInfo"
    /\ outcome.args = <<"(", "(", "(", ")">>
    /\ outcome.raised = Ptr(InvalidType)


(***************************************************************************)
(* DPI::Config: the configured DPI of each sensor                          *)
(***************************************************************************)
\* The most sensors the configuration file lists.
MaxSensors == 3

\* DPI::Config::Config: _dpis holds the number, or the elements of the
\* array, of the setting "dpi", and nothing when there is none.
InitConfig ==
    /\ _properties = [i \in Interfaces |-> InitialProperties(i)]
    /\ _server = [i \in Interfaces |-> NullPtr]
    /\ _nodes = EmptyMap
    /\ exported = {}
    /\ next_registration_id = 1
    /\ _dpis \in UNION {[1..n -> {800, 1600}] : n \in 0..MaxSensors}
    /\ NoManager
    /\ reply = NoReply
    /\ reg = Idle
    /\ writer = Idle
    /\ _bus_type = "G_BUS_TYPE_SYSTEM"
    /\ _connection = g_bus_get_sync("G_BUS_TYPE_SYSTEM")
    /\ destroyed = {}
    /\ outcome = Outcome("DPI::Config", "", "", <<>>)

\* _config.setDPI(dpi, sensor).  A write past the end of the vector is
\* undefined: the call returns with the vector as it was, or the process
\* ends there.
setsDPI(dpi, sensor, returned) ==
    LET Done(c) ==
            /\ returned \/ c.undefined # ""
            /\ _dpis' = c.dpis
            /\ outcome' = [Outcome("DPI::Config", "", "setDPI",
                                   <<"setDPI", dpi, sensor>>)
                              EXCEPT !.undefined = IF c.undefined = ""
                                                   THEN NullPtr
                                                   ELSE Ptr(c.undefined),
                                     !.result = IF returned
                                                THEN Ptr("returned")
                                                ELSE NullPtr]
    IN  /\ outcome.call = "DPI::Config"
        /\ outcome.member = "" \/ outcome.result # NullPtr
        /\ Done(Config_setDPI(_dpis, dpi, sensor))
        /\ UNCHANGED <<_properties, _server, _nodes, exported,
                       next_registration_id, reply, reg, writer,
                       _bus_type, _connection, destroyed, manager>>

NextConfig ==
    \E dpi \in {400, 1000}, sensor \in 0..MaxSensors, returned \in BOOLEAN :
        setsDPI(dpi, sensor, returned)

SpecConfig == InitConfig /\ [][NextConfig]_vars

\* C39: DPI::Config::setDPI(dpi, sensor) stores dpi as the configured DPI
\* of that sensor and leaves the configured DPI of every other sensor as
\* it was, for every sensor index and every number of configured sensors:
\* no entry is dropped and nothing is written outside the list.
SetDPIFrame ==
    [][(/\ outcome'.call = "DPI::Config"
        /\ outcome'.member = "setDPI") =>
            /\ outcome'.undefined = NullPtr
            /\ outcome'.args[3] < Len(_dpis')
            /\ _dpis'[outcome'.args[3] + 1] = outcome'.args[2]
            /\ \A k \in 1..Len(_dpis) :
                    k # outcome'.args[3] + 1 =>
                        /\ k <= Len(_dpis')
                        /\ _dpis'[k] = _dpis[k]]_vars


MaxIds == 3

MaxListed == 3

MaxRegistered == 3

\* DeviceManager::addDevice runs on the monitor's thread and
\* Receiver::addDevice on the receiver's.
Threads == {"monitor", "receiver"}

\* std::to_string(id)
to_string(id) == <<"0", "1", "2", "3", "4", "5", "6", "7", "8", "9">>[id + 1]

\* DeviceManager::IPC::IPC: "devices" and "receivers", both an empty "as".
ManagerProperties ==
    [p \in {"devices", "receivers"} |->
        MkProperty(IPCVariant_array(<<>>, TypeInfo(<<"a", "s">>)),
                   TypeInfo(<<"a", "s">>), TRUE, FALSE)]

ManagerIdentity == IPCInterface("", "DeviceManager")

\* A Device or Receiver of a thread, and the identity of its interface:
\* Device::IPC::IPC and Receiver::IPC::IPC.
Object(thread, id, receiver) ==
    [owner |-> thread, id |-> id, receiver |-> receiver]

ObjectIdentity(id, receiver) ==
    IF receiver THEN IPCInterface("receiver/" \o to_string(id), "Receiver")
    ELSE IPCInterface("device/" \o to_string(id), "Device")

\* A thread between two constructors or destructors.
IdleThread(owned, thrown) ==
    [pc |-> "idle", id |-> 0, receiver |-> FALSE, copy |-> NullPtr,
     owned |-> owned, thrown |-> thrown]

\* No destructor has ended the process.
Running == \A t \in Threads : threads[t].pc # "terminated"

\* The property a call of the DeviceManager's interface works on.
ListOf(receiver) == IF receiver THEN "receivers" ELSE "devices"

InitManager ==
    /\ _properties = [i \in {"DeviceManager"} |-> ManagerProperties]
    /\ _server = [i \in {"DeviceManager"} |-> Ptr("server")]
    /\ _nodes = MapPut(EmptyMap, ManagerIdentity._node,
                       MapPut(EmptyMap, ManagerIdentity._name,
                              MkRecord(Ptr("DeviceManager"), 1,
                                       [name |-> ManagerIdentity._name])))
    /\ exported = {[id |-> 1, node |-> ManagerIdentity._node,
                    name |-> ManagerIdentity._name]}
    /\ next_registration_id = 2
    /\ _dpis = <<>>
    /\ reply = NoReply
    /\ reg = Idle
    /\ writer = Idle
    /\ _bus_type = "G_BUS_TYPE_SYSTEM"
    /\ _connection = g_bus_get_sync("G_BUS_TYPE_SYSTEM")
    /\ destroyed = {}
    /\ outcome = NoOutcome
    /\ _device_ids = {}
    /\ threads = [t \in Threads |-> IdleThread({}, NullPtr)]
    /\ build \in {"reinterpret_cast", "static_cast"}

\* The id DeviceManager::newDeviceId computes: 0 for an empty set and for a
\* set whose first id is above 0, else one more than the first id that
\* std::adjacent_find sees followed by another than its successor, else one
\* more than the last id.
NewId(ids) ==
    LET first == CHOOSE a \in ids : \A b \in ids : a <= b
        last == CHOOSE a \in ids : \A b \in ids : b <= a
        found == {a \in ids : a + 1 \notin ids /\ \E b \in ids : b > a}
    IN  IF ids = {} THEN 0
        ELSE IF first > 0 THEN 0
        ELSE IF found = {} THEN last + 1
        ELSE (CHOOSE a \in found : \A b \in found : a <= b) + 1

\* DeviceManager::newDeviceId(receiver), under _device_id_lock: the id is
\* chosen and inserted.  The constructor of a Device or a Receiver calls it;
\* the monitor's thread constructs both, a receiver's thread Devices.
newDeviceId(thread, receiver) ==
    /\ Running
    /\ threads[thread].pc = "idle"
    /\ receiver => thread = "monitor"
    /\ Cardinality(_device_ids) < MaxIds
    /\ next_registration_id <= MaxRegistered
    /\ \A p \in {"devices", "receivers"} :
            Len(_properties["DeviceManager"][p].property._array) < MaxListed
    /\ _device_ids' = _device_ids \cup {NewId(_device_ids)}
    /\ threads' = [threads EXCEPT ![thread] =
                    [@ EXCEPT !.pc = "add", !.id = NewId(_device_ids),
                              !.receiver = receiver, !.thrown = NullPtr]]
    /\ UNCHANGED <<_properties, _server, _nodes, exported,
                   next_registration_id, _dpis, reply, reg, writer,
                   lifecycle, build>>

\* (std::vector<ipc::IPCVariant>&)(property): the conversion operator, which
\* throws unless the Variant is a Dict, or the member the reference is
\* reinterpreted as, by the build.
CastVector(v) ==
    IF build = "static_cast" THEN as_vector(v) ELSE [value |-> v._array]

\* The first two statements of DeviceManager::IPC::addDevice, addReceiver,
\* removeDevice and removeReceiver: the copy of the property, and the copy
\* of its list.  An exception ends the constructor, and the process when
\* it leaves a destructor.
IPC_read(thread) ==
    LET dev_property ==
            _properties["DeviceManager"][ListOf(threads[thread].receiver)]
        Read(devices) ==
            IF ~Threw(devices)
            THEN [threads[thread] EXCEPT
                    !.pc = IF @ = "add" THEN "added" ELSE "removed",
                    !.copy = Ptr(dev_property)]
            ELSE IF threads[thread].pc = "add"
            THEN IdleThread(threads[thread].owned, devices)
            ELSE [threads[thread] EXCEPT !.pc = "terminated",
                                         !.thrown = devices]
    IN  /\ Running
        /\ threads[thread].pc \in {"add", "remove"}
        /\ threads' = [threads EXCEPT ![thread] =
                            Read(CastVector(dev_property.property))]
        /\ UNCHANGED <<_properties, _server, _nodes, exported,
                       next_registration_id, _dpis, reply, reg, writer,
                       lifecycle, _device_ids, build>>

\* IPCVariant::operator=(const std::vector<IPCVariant>&) on `this`.
VectorAssigned(v, other) ==
    IF primaryType(type(v)) = "a"
    THEN IF \E i \in 1..Len(other) :
                TypeNe(type(other[i]), arrayType(type(v)))
         THEN InvalidType
         ELSE [v EXCEPT !._array = other]
    ELSE IF primaryType(type(v)) = "("
    THEN IF Len(other) # Len(structFormat(type(v)).types)
         THEN InvalidType
         ELSE IF \E i \in 1..Len(other) :
                    TypeNe(type(other[i]), structFormat(type(v)).types[i])
              THEN InvalidType
              ELSE [v EXCEPT !._array = other]
    ELSE InvalidType

\* The loop of removeDevice and removeReceiver: the first element that
\* operator==(const std::string&) finds equal is erased.
EraseFirst(devices, name) ==
    LET equal == {k \in 1..Len(devices) :
                    /\ primaryType(type(devices[k])) \in StringTypes
                    /\ devices[k]._string_data = name}
        Erased(it) == SubSeq(devices, 1, it - 1) \o
                      SubSeq(devices, it + 1, Len(devices))
    IN  IF equal = {} THEN devices
        ELSE Erased(CHOOSE k \in equal : \A j \in equal : k <= j)

\* The rest of addDevice, addReceiver, removeDevice and removeReceiver: the
\* list is changed, assigned to the copy of the property and the copy
\* stored; the signal is broadcast, and IPCServer::emitSignal throws when
\* the transport refuses it.
IPC_write(thread, transport_ok) ==
    LET me == threads[thread]
        name == <<to_string(me.id)>>
        dev_property == me.copy.ptr
        devices == CastVector(dev_property.property).value
        changed == IF me.pc = "added"
                   THEN Append(devices, IPCVariant_string(name, "s"))
                   ELSE EraseFirst(devices, name)
        broadcast == g_dbus_connection_emit_signal(
                        _connection, ManagerIdentity._node, transport_ok)
        failed == Throw("runtime_error", "signal broadcast failed")
    IN  /\ Running
        /\ me.pc \in {"added", "removed"}
        /\ _properties' =
                [_properties EXCEPT !["DeviceManager"][ListOf(me.receiver)] =
                    [dev_property EXCEPT !.property =
                        VectorAssigned(dev_property.property, changed)]]
        /\ threads' = [threads EXCEPT ![thread] =
                IF broadcast
                THEN [me EXCEPT !.pc = IF @ = "added" THEN "register"
                                       ELSE "unregister",
                                !.copy = NullPtr]
                ELSE IF me.pc = "added"
                THEN IdleThread(me.owned, failed)
                ELSE [me EXCEPT !.pc = "terminated", !.thrown = failed]]
        /\ UNCHANGED <<_server, _nodes, exported, next_registration_id,
                       _dpis, reply, reg, writer, lifecycle, _device_ids,
                       build>>

\* ipc::registerAuto(&_ipc_interface) of Device::_init and of Receiver's
\* constructor: IPCServer::registerInterface stores the record under the
\* interface's node and name whatever the transport answers, and
\* g_dbus_connection_register_object answers 0 for a node and interface
\* name that are exported already.  The object is constructed.
registerAuto(thread) ==
    LET me == threads[thread]
        identity == ObjectIdentity(me.id, me.receiver)
        registration_id ==
            IF /\ _connection # NullPtr
               /\ \A e \in exported : \/ e.node # identity._node
                                      \/ e.name # identity._name
            THEN next_registration_id
            ELSE 0
        inner == IF identity._node \in DOMAIN _nodes
                 THEN _nodes[identity._node] ELSE EmptyMap
    IN  /\ Running
        /\ me.pc = "register"
        /\ exported' = IF registration_id # 0
                       THEN exported \cup {[id |-> registration_id,
                                            node |-> identity._node,
                                            name |-> identity._name]}
                       ELSE exported
        /\ next_registration_id' = IF registration_id # 0
                                   THEN next_registration_id + 1
                                   ELSE next_registration_id
        /\ _nodes' = MapPut(_nodes, identity._node,
                        MapPut(inner, identity._name,
                            MkRecord(Ptr(Object(thread, me.id, me.receiver)),
                                     registration_id,
                                     [name |-> identity._name])))
        /\ threads' = [threads EXCEPT ![thread] =
                IdleThread(me.owned \cup {[id |-> me.id,
                                           receiver |-> me.receiver]},
                           NullPtr)]
        /\ UNCHANGED <<_properties, _server, _dpis, reply, reg, writer,
                       lifecycle, _device_ids, build>>

\* DeviceManager::dropDeviceId(id, receiver), under _device_id_lock: the
\* body of ~Device and of ~Receiver erases the id.
dropDeviceId(thread, o) ==
    /\ Running
    /\ threads[thread].pc = "idle"
    /\ o \in threads[thread].owned
    /\ _device_ids' = _device_ids \ {o.id}
    /\ threads' = [threads EXCEPT ![thread] =
                    [@ EXCEPT !.pc = "remove", !.id = o.id,
                              !.receiver = o.receiver,
                              !.owned = @ \ {o}, !.thrown = NullPtr]]
    /\ UNCHANGED <<_properties, _server, _nodes, exported,
                   next_registration_id, _dpis, reply, reg, writer,
                   lifecycle, build>>

\* ~IPCInterface of the member _ipc_interface, after the body of the
\* destructor: IPCServer::unregisterInterface(_node, _name).
IPCInterface_unregister(thread) ==
    LET me == threads[thread]
        identity == ObjectIdentity(me.id, me.receiver)
    IN  /\ Running
        /\ me.pc = "unregister"
        /\ _nodes' = ServerUnregister(_nodes, identity._node, identity._name)
        /\ exported' = TransportUnregister(_nodes, identity._node,
                                           identity._name)
        /\ threads' = [threads EXCEPT ![thread] =
                            IdleThread(me.owned, NullPtr)]
        /\ UNCHANGED <<_properties, _server, next_registration_id, _dpis,
                       reply, reg, writer, lifecycle, _device_ids, build>>

NextManager ==
    \/ \E thread \in Threads, receiver \in BOOLEAN :
            newDeviceId(thread, receiver)
    \/ \E thread \in Threads : IPC_read(thread)
    \/ \E thread \in Threads, transport_ok \in BOOLEAN :
            IPC_write(thread, transport_ok)
    \/ \E thread \in Threads : registerAuto(thread)
    \/ \E thread \in Threads :
        \E o \in threads[thread].owned : dropDeviceId(thread, o)
    \/ \E thread \in Threads : IPCInterface_unregister(thread)

SpecManager == InitManager /\ [][NextManager]_vars

\* The Devices and Receivers that are constructed and whose destructor has
\* not begun.
LiveObjects ==
    UNION {{Object(t, o.id, o.receiver) : o \in threads[t].owned} :
                t \in Threads}

\* The ids newDeviceId has given to a constructor that is still running or
\* has completed, and that dropDeviceId was not called with since.
HeldIds ==
    {o.id : o \in LiveObjects} \cup
    {threads[t].id : t \in {u \in Threads :
                            threads[u].pc \in {"add", "added", "register"}}}

\* newDeviceId returns to `thread` in this step.
HandsOut(thread) ==
    /\ threads[thread].pc = "idle"
    /\ threads'[thread].pc = "add"

\* C38: for every sequence of newDeviceId and dropDeviceId calls, in the
\* build where the cast reads the list, newDeviceId gives the smallest
\* non-negative integer that no Device or Receiver holds, the ids of the
\* live Devices and Receivers are pairwise distinct, and dropDeviceId(id)
\* frees id and no other id.
SmallestFreeId ==
    /\ [](build = "reinterpret_cast" =>
            \A a \in LiveObjects, b \in LiveObjects : a.id = b.id => a = b)
    /\ [][build = "reinterpret_cast" =>
            \A t \in Threads :
                /\ HandsOut(t) =>
                        /\ threads'[t].id \notin HeldIds
                        /\ \A n \in 0..(threads'[t].id - 1) : n \in HeldIds
                /\ (threads[t].pc = "idle" /\ threads'[t].pc = "remove") =>
                        _device_ids' = _device_ids \ {threads'[t].id}]_vars

\* The ids a list of the DeviceManager's interface names, in its order.
Listed(p) ==
    LET devices == _properties["DeviceManager"][p].property._array
    IN  [k \in 1..Len(devices) |-> devices[k]._string_data]

\* C37: when no call of newDeviceId or dropDeviceId is under way, in the
\* build where the cast reads the list, 'devices' and 'receivers' name
\* every id of _device_ids once, the ids of the live Devices in 'devices'
\* and those of the live Receivers in 'receivers', and no other id.
ListsMatchIds ==
    LET All == Listed("devices") \o Listed("receivers")
    IN  (/\ build = "reinterpret_cast"
         /\ \A t \in Threads :
                threads[t].pc \in {"idle", "register", "unregister"}) =>
            /\ \A id \in _device_ids :
                    Cardinality({k \in 1..Len(All) :
                                    All[k] = <<to_string(id)>>}) = 1
            /\ \A k \in 1..Len(All) :
                    \E id \in _device_ids : All[k] = <<to_string(id)>>
            /\ \A o \in LiveObjects :
                    \E k \in 1..Len(Listed(ListOf(o.receiver))) :
                        Listed(ListOf(o.receiver))[k] = <<to_string(o.id)>>

\* C36: newDeviceId gives no id under whose node (device/<id> or
\* receiver/<id>) the registry still holds an Interface, and the record
\* under the node of a live Device or Receiver is the record of its own
\* interface, whatever the other thread destroys.
IdFreeOfRecords ==
    /\ [][\A t \in Threads :
            HandsOut(t) =>
                \A receiver \in BOOLEAN :
                    ObjectIdentity(threads'[t].id, receiver)._node
                        \notin DOMAIN _nodes]_vars
    /\ [](\A o \in LiveObjects :
            LET identity == ObjectIdentity(o.id, o.receiver)
            IN  /\ identity._node \in DOMAIN _nodes
                /\ identity._name \in DOMAIN _nodes[identity._node]
                /\ _nodes[identity._node][identity._name].interface = Ptr(o))

====
